---- MODULE Spec2Model ----
(***************************************************************************)
(* Model of python-mp3: the bit-field codec (mp3/_bitpack.py), the MPEG    *)
(* frame header and the frame variants (mp3/__init__.py), the Reader frame *)
(* stream (mp3/__init__.py, Reader.frames) and the ZeroCopyBuffer          *)
(* (mp3/_buffer.py).                                                       *)
(*                                                                         *)
(* Conventions: a Python bytearray is a sequence of 0..255, Python offsets *)
(* are 0-based so buffer[o] is b[o + 1]; Python None is the value None;    *)
(* Python bool values are 0 / 1; a Python call that may raise returns a    *)
(* record whose err field names the exception class ("ok" when none).      *)
(***************************************************************************)
EXTENDS Integers, Sequences, FiniteSets, TLC

None == -1

Min(a, b) == IF a < b THEN a ELSE b
Max(a, b) == IF a > b THEN a ELSE b

Shl(x, n) == x * (2 ^ n)
Shr(x, n) == x \div (2 ^ n)

Bit(x, i) == (x \div (2 ^ i)) % 2

(* a & b and a | b for operands below 2^8 *)
BitAnd8(a, b) ==
    Bit(a, 0) * Bit(b, 0) + 2 * (Bit(a, 1) * Bit(b, 1)) + 4 * (Bit(a, 2) * Bit(b, 2))
      + 8 * (Bit(a, 3) * Bit(b, 3)) + 16 * (Bit(a, 4) * Bit(b, 4))
      + 32 * (Bit(a, 5) * Bit(b, 5)) + 64 * (Bit(a, 6) * Bit(b, 6))
      + 128 * (Bit(a, 7) * Bit(b, 7))

(* a & b and a | b for operands below 2^16 *)
BitAnd(a, b) ==
    BitAnd8(a % 256, b % 256) + 256 * BitAnd8((a \div 256) % 256, (b \div 256) % 256)

BitOr(a, b) == a + b - BitAnd(a, b)

(* Byte strings of the wire format. *)
S_TAG == <<84, 65, 71>>
S_ID3 == <<73, 68, 51>>
S_APETAGEX == <<65, 80, 69, 84, 65, 71, 69, 88>>
S_RIFF == <<82, 73, 70, 70>>
S_WAVE == <<87, 65, 86, 69>>
S_fmt == <<102, 109, 116, 32>>
S_fact == <<102, 97, 99, 116>>
S_data == <<100, 97, 116, 97>>
S_Xing == <<88, 105, 110, 103>>
S_Info == <<73, 110, 102, 111>>

(* bytearray.startswith(prefix, offset) *)
startswith(b, prefix, offset) ==
    /\ offset + Len(prefix) <= Len(b)
    /\ \A i \in 1..Len(prefix) : b[offset + i] = prefix[i]

(* struct.unpack_from of little-endian unsigned fields *)
U32LE(b, o) == b[o + 1] + 256 * b[o + 2] + 65536 * b[o + 3] + 16777216 * b[o + 4]
U16LE(b, o) == b[o + 1] + 256 * b[o + 2]

(***************************************************************************)
(* _bitpack.py                                                             *)
(***************************************************************************)
Field(t, n) == [type |-> t, length |-> n, default |-> None]

RECURSIVE SumLengths(_, _)
SumLengths(fmt, i) == IF i > Len(fmt) THEN 0 ELSE fmt[i].length + SumLengths(fmt, i + 1)

(* formatstr.length = ceil(sum of the widths / 8) *)
FormatLength(fmt) == (SumLengths(fmt, 1) + 7) \div 8

(* type(value) for the two bitpack types: int and bool *)
Coerce(t, v) == IF t = "b" THEN (IF v = 0 THEN 0 ELSE 1) ELSE v

(* the while loop of bitunpack_from for one field.  bitmask is num_bits   *)
(* ones above num_empty_bits zeros, so (buffer[offset] & bitmask) >>       *)
(* num_empty_bits is the byte shifted right and cut to num_bits bits; the  *)
(* bits merged by value |= bits << num_remaining_bits lie below the ones   *)
(* value already holds, so the or is a sum                                 *)
RECURSIVE UnpackBits(_, _, _, _, _)
UnpackBits(buffer, length, offset, bit_offset, value) ==
    IF length <= 0
    THEN [value |-> value, offset |-> offset, bit_offset |-> bit_offset]
    ELSE LET num_bits == Min(8 - bit_offset, length)
             num_remaining_bits == Max(0, length - num_bits)
             num_empty_bits == 8 - bit_offset - num_bits
             bits == Shr(buffer[offset + 1], num_empty_bits) % (2 ^ num_bits)
             nbo == (bit_offset + num_bits) % 8
         IN UnpackBits(buffer, length - num_bits,
                       IF nbo = 0 THEN offset + 1 ELSE offset, nbo,
                       value + Shl(bits, num_remaining_bits))

(* the number of bits the for loop has gone through before field i *)
RECURSIVE BitsBefore(_, _)
BitsBefore(fmt, i) == IF i <= 1 THEN 0 ELSE fmt[i - 1].length + BitsBefore(fmt, i - 1)

(* the for loop of bitunpack_from: field i is read from the byte and bit   *)
(* offset the fields before it have left; the first field whose value is   *)
(* not its default raises                                                  *)
UnpackFields(fmt, buffer, offset) ==
    LET value(i) ==
            Coerce(fmt[i].type,
                   UnpackBits(buffer, fmt[i].length, offset + (BitsBefore(fmt, i) \div 8),
                              BitsBefore(fmt, i) % 8, 0).value)
        bad == {i \in 1..Len(fmt) : fmt[i].default # None /\ value(i) # fmt[i].default}
    IN IF bad # {}
       THEN [err |-> "bitpack.invalid_input_error", values |-> <<>>]
       ELSE [err |-> "ok", values |-> [i \in 1..Len(fmt) |-> value(i)]]

bitunpack_from(fmt, buffer, offset) ==
    IF FormatLength(fmt) > Len(buffer) - offset
    THEN [err |-> "bitpack.error", values |-> <<>>]
    ELSE UnpackFields(fmt, buffer, offset)

(* value & bitmask for bitmask = pow(2, length) - 1 and an int of any      *)
(* sign: the low length bits of value                                      *)
LowBits(value, length) == value % (2 ^ length)

(* the while loop of bitpack_into that overwrites the whole byte with the  *)
(* bits of the value: the bits packed before are not kept                  *)
RECURSIVE PackBits_clobber(_, _, _, _, _)
PackBits_clobber(buffer, value, length, offset, bit_offset) ==
    IF length <= 0
    THEN [buffer |-> buffer, offset |-> offset, bit_offset |-> bit_offset]
    ELSE LET num_bits == Min(8 - bit_offset, length)
             num_remaining_bits == Max(0, length - num_bits)
             num_empty_bits == 8 - bit_offset - num_bits
             bits == Shl(Shr(value, num_remaining_bits) % (2 ^ num_bits), num_empty_bits)
             nbo == (bit_offset + num_bits) % 8
         IN PackBits_clobber([buffer EXCEPT ![offset + 1] = bits], value,
                             length - num_bits, IF nbo = 0 THEN offset + 1 ELSE offset, nbo)

(* the while loop of bitpack_into for one field (lines 91-116).            *)
(* (value & bitmask) >> num_remaining_bits, for bitmask = num_bits ones    *)
(* above num_remaining_bits zeros, is the value shifted right and cut to   *)
(* num_bits bits; keep is the mask of the bits of the byte left as they    *)
(* are: bit_offset bits on the left, num_empty_bits on the right           *)
RECURSIVE PackBits(_, _, _, _, _)
PackBits(buffer, value, length, offset, bit_offset) ==
    IF length <= 0
    THEN [buffer |-> buffer, offset |-> offset, bit_offset |-> bit_offset]
    ELSE LET num_bits == Min(8 - bit_offset, length)
             num_remaining_bits == Max(0, length - num_bits)
             num_empty_bits == 8 - bit_offset - num_bits
             bits == Shl(Shr(value, num_remaining_bits) % (2 ^ num_bits), num_empty_bits)
             keep == BitOr(Shl((2 ^ bit_offset) - 1, 8 - bit_offset), (2 ^ num_empty_bits) - 1)
             nbo == (bit_offset + num_bits) % 8
         IN PackBits([buffer EXCEPT ![offset + 1] = BitOr(BitAnd(buffer[offset + 1], keep), bits)],
                     value, length - num_bits, IF nbo = 0 THEN offset + 1 ELSE offset, nbo)

(* the for loop of bitpack_into from field i on; values[i] raises          *)
(* IndexError when there are fewer values than fields                      *)
RECURSIVE PackFields(_, _, _, _, _, _)
PackFields(fmt, buffer, offset, bit_offset, values, i) ==
    IF i > Len(fmt) THEN [err |-> "ok", buffer |-> buffer]
    ELSE IF i > Len(values) THEN [err |-> "IndexError", buffer |-> buffer]
    ELSE PackFields(fmt,
                    PackBits(buffer, LowBits(Coerce(fmt[i].type, values[i]), fmt[i].length),
                             fmt[i].length, offset, bit_offset).buffer,
                    offset + ((bit_offset + fmt[i].length) \div 8),
                    (bit_offset + fmt[i].length) % 8, values, i + 1)

bitpack_into(fmt, buffer, offset, values) ==
    IF FormatLength(fmt) > Len(buffer) - offset
    THEN [err |-> "bitpack.error", buffer |-> buffer]
    ELSE PackFields(fmt, buffer, offset, 0, values, 1)

(***************************************************************************)
(* Header2                                                                 *)
(***************************************************************************)
V25 == 25

(* int(version) for version in {1, 2, 2.5} *)
IntVersion(v) == IF v = V25 THEN 2 ELSE v

BITRATES ==
    << << <<32, 64, 96, 128, 160, 192, 224, 256, 288, 320, 352, 384, 416, 448>>,
          <<32, 48, 56, 64, 80, 96, 112, 128, 160, 192, 224, 256, 320, 384>>,
          <<32, 40, 48, 56, 64, 80, 96, 112, 128, 160, 192, 224, 256, 320>> >>,
       << <<32, 48, 56, 64, 80, 96, 112, 128, 144, 160, 176, 192, 224, 256>>,
          <<8, 16, 24, 32, 40, 48, 56, 64, 80, 96, 112, 128, 144, 160>>,
          <<8, 16, 24, 32, 40, 48, 56, 64, 80, 96, 112, 128, 144, 160>> >> >>

SAMPLINGRATES == << <<44100, 48000, 32000>>, <<22050, 24000, 16000>> >>

SIDE_INFO_SIZE == << <<32, 17>>, <<17, 9>> >>

MONO == 3

HEADER_FORMAT ==
    << Field("i", 11), Field("i", 2), Field("i", 2), Field("b", 1),
       Field("i", 4), Field("i", 2), Field("b", 1), Field("b", 1),
       Field("i", 2), Field("i", 2), Field("b", 1), Field("b", 1),
       Field("i", 2) >>

HeaderDict(v) ==
    [sync |-> v[1], version |-> v[2], layer |-> v[3], crc |-> v[4],
     bitrate |-> v[5], samplingrate |-> v[6], padding |-> v[7],
     private |-> v[8], channelmode |-> v[9], modeextension |-> v[10],
     copyright |-> v[11], original |-> v[12], emphasis |-> v[13]]

Ok(v) == [err |-> "ok", val |-> v]
Raise(e) == [err |-> e, val |-> None]

Header2_sync(d) ==
    IF d.sync # 2047 THEN Raise("MP3FrameHeaderError") ELSE Ok(d.sync)

Header2_version(d) ==
    IF d.version = 0 THEN Ok(V25)
    ELSE IF d.version = 1 THEN Raise("MP3FrameHeaderError")
    ELSE Ok(4 - d.version)

Header2_layer(d) ==
    IF d.layer = 0 THEN Raise("MP3FrameHeaderError") ELSE Ok(4 - d.layer)

Header2_crc(d) == Ok(1 - d.crc)

Header2_bitrate(d) ==
    IF d.bitrate = 15 \/ d.bitrate = 0 THEN Raise("MP3FrameHeaderError")
    ELSE LET v == Header2_version(d)
             l == Header2_layer(d)
         IN IF v.err # "ok" THEN v
            ELSE IF l.err # "ok" THEN l
            ELSE Ok(BITRATES[IntVersion(v.val)][l.val][d.bitrate])

Header2_samplingrate(d) ==
    LET v == Header2_version(d)
    IN IF v.err # "ok" THEN v
       ELSE IF d.samplingrate = 3 THEN Raise("MP3FrameHeaderError")
       ELSE IF v.val = V25
            THEN Ok(SAMPLINGRATES[IntVersion(v.val)][d.samplingrate + 1] \div 2)
            ELSE Ok(SAMPLINGRATES[IntVersion(v.val)][d.samplingrate + 1])

(* the validation loop of Header2.__init__: getattr for every field in   *)
(* the order of _FIELDS; the first accessor that raises ends it          *)
Header2_validate(d) ==
    LET acc == << Header2_sync(d), Header2_version(d), Header2_layer(d),
                  Header2_crc(d), Header2_bitrate(d), Header2_samplingrate(d) >>
        bad == {i \in 1..Len(acc) : acc[i].err # "ok"}
    IN IF bad = {} THEN "ok"
       ELSE acc[CHOOSE i \in bad : \A j \in bad : i <= j].err

Header2_side_info_size(h) ==
    SIDE_INFO_SIZE[IF h.version > 1 THEN 2 ELSE 1][IF h.channelmode = MONO THEN 2 ELSE 1]

(* Header2.length(include_crc) with include_crc in {0, 1} *)
Header2_length(h, include_crc) ==
    4 + include_crc * h.crc * 2 + Header2_side_info_size(h)

NoHeader ==
    [version |-> None, layer |-> None, crc |-> None, bitrate |-> None,
     samplingrate |-> None, padding |-> None, channelmode |-> None]

(* the header once every accessor has accepted the raw fields d *)
Header2_fields(d) ==
    [version |-> Header2_version(d).val,
     layer |-> Header2_layer(d).val,
     crc |-> Header2_crc(d).val,
     bitrate |-> Header2_bitrate(d).val,
     samplingrate |-> Header2_samplingrate(d).val,
     padding |-> d.padding,
     channelmode |-> d.channelmode]

(* Header2.__init__ after bitunpack_from returned or raised u *)
Header2_unpacked(u) ==
    IF u.err # "ok" THEN [err |-> u.err, header |-> NoHeader]
    ELSE IF Header2_validate(HeaderDict(u.values)) # "ok"
    THEN [err |-> Header2_validate(HeaderDict(u.values)), header |-> NoHeader]
    ELSE [err |-> "ok", header |-> Header2_fields(HeaderDict(u.values))]

Header2_init(buffer, offset) ==
    Header2_unpacked(bitunpack_from(HEADER_FORMAT, buffer, offset))

(***************************************************************************)
(* Frame variants.  fo is the Reader the constructors take as fileobj: its *)
(* fields _has_riff_header, _has_xing_header, _mpeg_version, _mpeg_layer.  *)
(* A constructor returns the frame (kind, length, version, header), the    *)
(* value __init__ returned (ret) and the fileobj as it left it.            *)
(***************************************************************************)
Truthy(x) == x # None /\ x # 0

NewFileobj ==
    [has_riff_header |-> FALSE, has_xing_header |-> None,
     mpeg_version |-> None, mpeg_layer |-> None]

FrameResult(e, k, len, ver, h, fo) ==
    [err |-> e, kind |-> k, length |-> len, version |-> ver, header |-> h,
     ret |-> None, fo |-> fo]

InvalidFrame(fo) == FrameResult("_InvalidFrame", "none", None, None, NoHeader, fo)
HardError(e, fo) == FrameResult(e, "none", None, None, NoHeader, fo)

MetaKinds == {"ID3Frame", "APEFrame"}

ID3_V1 == 0
ID3_V2 == 1
APE_V1 == 0
APE_V2 == 1
APE_HEADER_SIZE == 32

ID3Frame_init(buffer, fo, offset, strict) ==
    IF startswith(buffer, S_TAG, offset)
    THEN FrameResult("ok", "ID3Frame", 128, ID3_V1, NoHeader, fo)
    ELSE IF startswith(buffer, S_ID3, offset)
    THEN IF Len(buffer) < 10 THEN HardError("MP3Error: need at least 10 bytes", fo)
         ELSE IF offset + 9 >= Len(buffer) THEN HardError("IndexError", fo)
         ELSE FrameResult("ok", "ID3Frame",
                          Shl(buffer[offset + 7], 21) + Shl(buffer[offset + 8], 14)
                            + Shl(buffer[offset + 9], 7) + buffer[offset + 10] + 10,
                          ID3_V2, NoHeader, fo)
    ELSE InvalidFrame(fo)

APEFrame_init(buffer, fo, offset, strict) ==
    IF ~startswith(buffer, S_APETAGEX, offset) THEN InvalidFrame(fo)
    ELSE IF Len(buffer) - (offset + 8) < 8 THEN HardError("struct.error", fo)
    ELSE LET version == U32LE(buffer, offset + 8)
             length == U32LE(buffer, offset + 12)
         IN IF version = 2000
            THEN FrameResult("ok", "APEFrame", length + APE_HEADER_SIZE, APE_V2, NoHeader, fo)
            ELSE IF version = 1000
            THEN HardError("AttributeError", fo)
            ELSE FrameResult("ok", "APEFrame", length + APE_HEADER_SIZE, None, NoHeader, fo)

(* RIFFFrame.__init__ without the chunks it parses with _unpack_from: a    *)
(* 'fmt ' or 'fact' chunk is not a RIFF frame                              *)
RIFFFrame_init_lenient(buffer, fo, offset, strict) ==
    IF startswith(buffer, S_RIFF, offset) /\ startswith(buffer, S_WAVE, offset + 8)
    THEN FrameResult("ok", "RIFFFrame", 12, None, NoHeader,
                     [fo EXCEPT !.has_riff_header = TRUE])
    ELSE IF fo.has_riff_header /\ startswith(buffer, S_data, offset)
    THEN FrameResult("ok", "RIFFFrame", 8, None, NoHeader, fo)
    ELSE InvalidFrame(fo)

(* RIFFFrame.__init__ without the test of _has_riff_header at line 154 *)
RIFFFrame_init_ungated(buffer, fo, offset, strict) ==
    IF startswith(buffer, S_RIFF, offset) /\ startswith(buffer, S_WAVE, offset + 8)
    THEN FrameResult("ok", "RIFFFrame", 12, None, NoHeader,
                     [fo EXCEPT !.has_riff_header = TRUE])
    ELSE IF startswith(buffer, S_data, offset)
    THEN FrameResult("ok", "RIFFFrame", 8, None, NoHeader, fo)
    ELSE IF startswith(buffer, S_fmt, offset)
    THEN IF Len(buffer) - (offset + 4) < 6 THEN HardError("struct.error", fo)
         ELSE IF U16LE(buffer, offset + 8) # 85
         THEN HardError("MP3Error: non MPEG 1 Layer III data", fo)
         ELSE FrameResult("ok", "RIFFFrame", U32LE(buffer, offset + 4) + 8,
                          None, NoHeader, fo)
    ELSE IF startswith(buffer, S_fact, offset)
    THEN IF Len(buffer) - (offset + 4) < 4 THEN HardError("struct.error", fo)
         ELSE FrameResult("ok", "RIFFFrame", U32LE(buffer, offset + 4) + 8,
                          None, NoHeader, fo)
    ELSE InvalidFrame(fo)

RIFFFrame_init(buffer, fo, offset, strict) ==
    IF startswith(buffer, S_RIFF, offset) /\ startswith(buffer, S_WAVE, offset + 8)
    THEN FrameResult("ok", "RIFFFrame", 12, None, NoHeader,
                     [fo EXCEPT !.has_riff_header = TRUE])
    ELSE IF fo.has_riff_header
    THEN IF startswith(buffer, S_data, offset)
         THEN FrameResult("ok", "RIFFFrame", 8, None, NoHeader, fo)
         ELSE IF startswith(buffer, S_fmt, offset)
         THEN IF Len(buffer) - (offset + 4) < 6 THEN HardError("struct.error", fo)
              ELSE IF U16LE(buffer, offset + 8) # 85
              THEN HardError("MP3Error: non MPEG 1 Layer III data", fo)
              ELSE FrameResult("ok", "RIFFFrame", U32LE(buffer, offset + 4) + 8,
                               None, NoHeader, fo)
         ELSE IF startswith(buffer, S_fact, offset)
         THEN IF Len(buffer) - (offset + 4) < 4 THEN HardError("struct.error", fo)
              ELSE FrameResult("ok", "RIFFFrame", U32LE(buffer, offset + 4) + 8,
                               None, NoHeader, fo)
         ELSE InvalidFrame(fo)
    ELSE InvalidFrame(fo)

(* the length arithmetic without the padding slot *)
MPEGFrame_length_nopadding(header) ==
    LET mul == IF header.version = 1
               THEN (IF header.layer = 1 THEN 12 ELSE 144)
               ELSE (IF header.layer = 1 THEN 240 ELSE 72)
        slot == IF header.layer = 1 THEN 4 ELSE 1
    IN ((mul * header.bitrate * 1000) \div header.samplingrate) * slot

(* the length arithmetic of MPEGFrame.__init__ (lines 192-203) *)
MPEGFrame_length(header) ==
    LET mul == IF header.version = 1
               THEN (IF header.layer = 1 THEN 12 ELSE 144)
               ELSE (IF header.layer = 1 THEN 240 ELSE 72)
        slot == IF header.layer = 1 THEN 4 ELSE 1
    IN (((mul * header.bitrate * 1000) \div header.samplingrate)
          + (header.padding * slot)) * slot

(* MPEGFrame.__init__ without the except clause *)
MPEGFrame_catch_uncaught(e) == e

(* MP3FrameHeaderError is caught and re-raised as _InvalidFrame *)
MPEGFrame_catch(e) == IF e = "MP3FrameHeaderError" THEN "_InvalidFrame" ELSE e

(* MPEGFrame.__init__ has no return statement: it returns None *)
MPEGFrame_return(length) == None

(* MPEGFrame.__init__ after Header2(buffer, offset) returned or raised h *)
MPEGFrame_decoded(h, fo, strict) ==
    IF h.err # "ok" THEN HardError(MPEGFrame_catch(h.err), fo)
    ELSE IF strict /\ ( (Truthy(fo.mpeg_version) /\ h.header.version # fo.mpeg_version)
                        \/ (Truthy(fo.mpeg_layer) /\ h.header.layer # fo.mpeg_layer) )
    THEN InvalidFrame(fo)
    ELSE [FrameResult("ok", "MPEGFrame", MPEGFrame_length(h.header), None, h.header, fo)
             EXCEPT !.ret = MPEGFrame_return(MPEGFrame_length(h.header))]

MPEGFrame_init(buffer, fo, offset, strict) ==
    MPEGFrame_decoded(Header2_init(buffer, offset), fo, strict)

XING_MIN_HEADER_SIZE == 8

(* the flag tests of lines 236-250 *)
HasFlag(flags, mask) == BitAnd(flags, mask) # 0

(* lines 236-253: the length the flags announce, checked against the      *)
(* length of the MPEG frame                                                *)
XingFrame_flags(flags, header, mpeg_length, fo) ==
    IF ~(mpeg_length >= Header2_length(header, 1) + XING_MIN_HEADER_SIZE
                          + (IF HasFlag(flags, 8) THEN 4 ELSE 0)
                          + (IF HasFlag(flags, 4) THEN 100 ELSE 0)
                          + (IF HasFlag(flags, 2) THEN 4 ELSE 0)
                          + (IF HasFlag(flags, 1) THEN 4 ELSE 0))
    THEN HardError("AssertionError", fo)
    ELSE FrameResult("ok", "XingFrame", mpeg_length, None, header, fo)

(* lines 225-235: the tag is looked for at o, right after the header and   *)
(* the side information, and 2 bytes later when the frame has a CRC        *)
XingFrame_tag(buffer, fo, o, header, mpeg_length) ==
    IF \/ startswith(buffer, S_Xing, o)
       \/ startswith(buffer, S_Info, o)
       \/ (header.crc = 1 /\ ( startswith(buffer, S_Xing, o + 2)
                               \/ startswith(buffer, S_Info, o + 2) ))
    THEN IF o + 7 >= Len(buffer)
         THEN HardError("IndexError", [fo EXCEPT !.has_xing_header = 1])
         ELSE XingFrame_flags(buffer[o + 8], header, mpeg_length,
                              [fo EXCEPT !.has_xing_header = 1])
    ELSE InvalidFrame([fo EXCEPT !.has_xing_header = 0])

(* XingFrame.__init__ if an exception of super().__init__ were cached as a *)
(* failure too                                                             *)
XingFrame_super_cacheall(m, buffer, fo, offset) ==
    IF m.err # "ok" THEN [m EXCEPT !.fo = [fo EXCEPT !.has_xing_header = 0]]
    ELSE IF ~Truthy(m.ret) THEN InvalidFrame([fo EXCEPT !.has_xing_header = 0])
    ELSE XingFrame_tag(buffer, fo, offset + Header2_length(m.header, 1), m.header, m.ret)

(* XingFrame.__init__ after super().__init__ built or refused m *)
XingFrame_super(m, buffer, fo, offset) ==
    IF m.err # "ok" THEN m
    ELSE IF ~Truthy(m.ret) THEN InvalidFrame([fo EXCEPT !.has_xing_header = 0])
    ELSE XingFrame_tag(buffer, fo, offset + Header2_length(m.header, 1), m.header, m.ret)

XingFrame_init(buffer, fo, offset, strict) ==
    IF fo.has_xing_header = 0 THEN InvalidFrame(fo)
    ELSE XingFrame_super(MPEGFrame_init(buffer, fo, offset, strict), buffer, fo, offset)

FRAME_TYPES == <<"XingFrame", "MPEGFrame", "RIFFFrame", "ID3Frame", "APEFrame">>

FrameClass(cls, buffer, fo, offset, strict) ==
    CASE cls = "XingFrame" -> XingFrame_init(buffer, fo, offset, strict)
      [] cls = "MPEGFrame" -> MPEGFrame_init(buffer, fo, offset, strict)
      [] cls = "RIFFFrame" -> RIFFFrame_init(buffer, fo, offset, strict)
      [] cls = "ID3Frame" -> ID3Frame_init(buffer, fo, offset, strict)
      [] cls = "APEFrame" -> APEFrame_init(buffer, fo, offset, strict)

(* for frame_class in self._FRAME_TYPES: try ... except _InvalidFrame: pass *)
(* err is "ok" (a frame was built), "_InvalidFrame" (no class matched) or   *)
(* the exception that escaped the loop                                      *)
RECURSIVE TryFrames(_, _, _, _, _)

(* frame class i built or refused r: except _InvalidFrame: pass *)
TryNext(i, r, buffer, offset, strict) ==
    IF r.err = "_InvalidFrame" THEN TryFrames(i + 1, buffer, r.fo, offset, strict) ELSE r

TryFrames(i, buffer, fo, offset, strict) ==
    IF i > Len(FRAME_TYPES) THEN InvalidFrame(fo)
    ELSE TryNext(i, FrameClass(FRAME_TYPES[i], buffer, fo, offset, strict),
                 buffer, offset, strict)

(***************************************************************************)
(* Input streams.  A stream is the concatenation of items of a catalogue   *)
(* of byte strings: MPEG frames, tags, RIFF chunks, garbage.               *)
(***************************************************************************)
Bytes(n, v) == [i \in 1..n |-> v]

LE32(n) == <<n % 256, (n \div 256) % 256, (n \div 65536) % 256, (n \div 16777216) % 256>>
LE16(n) == <<n % 256, (n \div 256) % 256>>

(* the four header bytes of an MPEG frame, from the raw field codes *)
HeaderBytes(vcode, lcode, crcbit, brcode, srcode, pad, chmode) ==
    << 255, 224 + vcode * 8 + lcode * 2 + crcbit,
       brcode * 16 + srcode * 4 + pad * 2, chmode * 64 >>

(* version, layer, bitrate and sampling rate named by the raw codes *)
CodeVersion(vcode) == IF vcode = 0 THEN V25 ELSE 4 - vcode
CodeLayer(lcode) == 4 - lcode
CodeBitrate(vcode, lcode, brcode) ==
    BITRATES[IF vcode = 3 THEN 1 ELSE 2][CodeLayer(lcode)][brcode]
CodeRate(vcode, srcode) ==
    IF vcode = 3 THEN SAMPLINGRATES[1][srcode + 1]
    ELSE IF vcode = 2 THEN SAMPLINGRATES[2][srcode + 1]
    ELSE SAMPLINGRATES[2][srcode + 1] \div 2

(* the frame length as the format documents it, by version and layer *)
FormulaLength(version, layer, bitrate, rate, padding) ==
    IF version = 1 /\ layer = 1 THEN (((12 * bitrate * 1000) \div rate) + padding * 4) * 4
    ELSE IF version = 1 THEN ((144 * bitrate * 1000) \div rate) + padding
    ELSE IF layer = 1 THEN (((240 * bitrate * 1000) \div rate) + padding * 4) * 4
    ELSE ((72 * bitrate * 1000) \div rate) + padding

MpegLength(vcode, lcode, brcode, srcode, pad) ==
    FormulaLength(CodeVersion(vcode), CodeLayer(lcode),
                  CodeBitrate(vcode, lcode, brcode), CodeRate(vcode, srcode), pad)

(* a whole MPEG frame: header, then a body of one repeated byte *)
MpegFrame(vcode, lcode, brcode, srcode, pad, chmode, body) ==
    HeaderBytes(vcode, lcode, 1, brcode, srcode, pad, chmode)
      \o Bytes(MpegLength(vcode, lcode, brcode, srcode, pad) - 4, body)

MpegItem(vcode, lcode, brcode, srcode, pad, chmode, bytes) ==
    [class |-> "mpeg", bytes |-> bytes,
     length |-> MpegLength(vcode, lcode, brcode, srcode, pad)]

OtherItem(class, bytes) == [class |-> class, bytes |-> bytes, length |-> Len(bytes)]

F24bytes == MpegFrame(2, 1, 1, 1, 0, 0, 0)

Item(name) ==
    CASE name = "F24" -> MpegItem(2, 1, 1, 1, 0, 0, F24bytes)
      [] name = "F25" -> MpegItem(2, 1, 1, 1, 1, 0, MpegFrame(2, 1, 1, 1, 1, 0, 0))
      [] name = "F48" -> MpegItem(0, 1, 1, 1, 0, 0, MpegFrame(0, 1, 1, 1, 0, 0, 0))
      [] name = "F24x" ->
            [MpegItem(2, 1, 1, 1, 0, 0, [F24bytes EXCEPT ![24] = 255])
               EXCEPT !.class = "mpeg-corrupted"]
      [] name = "F24y" ->
            [MpegItem(2, 1, 1, 1, 0, 0, [F24bytes EXCEPT ![5] = 73])
               EXCEPT !.class = "mpeg-corrupted"]
      [] name = "BIG" -> MpegItem(2, 3, 12, 1, 0, 0, MpegFrame(2, 3, 12, 1, 0, 0, 0))
      [] name = "XING" ->
            [MpegItem(2, 1, 1, 1, 0, 3,
                      HeaderBytes(2, 1, 1, 1, 1, 0, 3) \o Bytes(9, 0) \o S_Xing
                        \o <<0, 0, 0, 0>> \o Bytes(3, 0))
               EXCEPT !.class = "xing"]
      [] name = "TRUNC" -> OtherItem("truncated", SubSeq(F24bytes, 1, 9))
      [] name = "G" -> OtherItem("garbage", <<0>>)
      [] name = "RIFF" -> OtherItem("riff", S_RIFF \o LE32(0) \o S_WAVE)
      [] name = "FMT55" -> OtherItem("fmt", S_fmt \o LE32(2) \o LE16(85))
      [] name = "FMT01" -> OtherItem("fmt-pcm", S_fmt \o LE32(2) \o LE16(1))
      [] name = "DATA" -> OtherItem("data", S_data \o LE32(0))
      [] name = "ID3" -> OtherItem("id3", S_ID3 \o <<3, 0, 0, 0, 0, 0, 2>> \o Bytes(2, 0))
      [] name = "ID3BIG" ->
            OtherItem("id3", S_ID3 \o <<3, 0, 0, 0, 0, 70, 30>> \o Bytes(8990, 0))
      [] name = "APE2" -> OtherItem("ape", S_APETAGEX \o LE32(2000) \o LE32(0) \o Bytes(16, 0))
      [] name = "ID3CUT" -> OtherItem("id3-cut", S_ID3 \o <<3, 0, 0>>)
      [] name = "APECUT" -> OtherItem("ape-cut", S_APETAGEX \o LE32(2000))
      [] name = "FMTCUT" -> OtherItem("fmt-cut", S_fmt \o LE32(2))

RECURSIVE Concat(_, _)
Concat(items, i) ==
    IF i > Len(items) THEN <<>> ELSE Item(items[i]).bytes \o Concat(items, i + 1)

(* the stream offset at which item i starts *)
RECURSIVE ItemStart(_, _)
ItemStart(items, i) ==
    IF i <= 1 THEN 0 ELSE ItemStart(items, i - 1) + Len(Item(items[i - 1]).bytes)

MaxItems == 3
MaxBig == 3

(* the items every stream of up to MaxItems items is drawn from, and the   *)
(* ones that appear in streams of one or two items only                    *)
Catalogue == {"F24", "F25", "F24x", "G", "RIFF", "FMT01", "ID3"}

RareItems == {"F24y", "XING", "TRUNC", "FMT55", "APE2"}

RECURSIVE SeqsUpTo(_, _)
SeqsUpTo(S, n) ==
    IF n = 0 THEN {<<>>}
    ELSE LET T == SeqsUpTo(S, n - 1)
         IN T \cup {Append(t, x) : t \in {u \in T : Len(u) = n - 1}, x \in S}

Repeat(x, n) == [i \in 1..n |-> x]

LongStreams ==
    UNION { { Repeat("BIG", k), <<"F24">> \o Repeat("BIG", k), <<"G">> \o Repeat("BIG", k),
              <<"ID3BIG">> \o Repeat("F24", k) } : k \in 1..MaxBig }

ShortStreams ==
    {<<a>> : a \in Catalogue \cup RareItems}
      \cup {<<a, b>> : a, b \in Catalogue \cup RareItems}

ExtraStreams ==
    { <<"RIFF", "FMT55", "DATA", "F24", "F24">>, <<"F48", "F48">>,
      <<"G", "F48", "F24", "F24">>, <<"G", "G", "F24", "F25", "F24">>,
      <<"F24", "F25", "TRUNC">>, <<"ID3", "XING", "F24">>, <<"F24", "APE2", "F25">>,
      <<"RIFF", "ID3", "APE2", "F24">>, <<"G", "TRUNC", "F24", "F24">>,
      <<"ID3CUT">>, <<"F24", "APECUT">>, <<"RIFF", "FMTCUT">>,
      <<"G", "RIFF", "G", "G", "FMT01">> }

Streams == SeqsUpTo(Catalogue, MaxItems) \cup ShortStreams \cup LongStreams \cup ExtraStreams

(***************************************************************************)
(* _buffer.py: ZeroCopyBuffer.  zb is the object: _size, _buffer (the      *)
(* backing bytearray), _pos, _len.  A method returns the object as it      *)
(* leaves it, the exception it raised ("ok" when none) and its value.      *)
(***************************************************************************)
ZeroCopyBuffer(size) == [size |-> size, buffer |-> Bytes(size, 0), pos |-> 0, len |-> 0]

Call(op, e, val, zb) == [op |-> op, err |-> e, val |-> val, z |-> zb]

NoCall == [op |-> "none", args |-> <<>>, err |-> "ok", val |-> None]

(* a Python index into a sequence of n elements, as slicing clamps it *)
SliceIndex(i, n) == IF i < 0 THEN Max(i + n, 0) ELSE Min(i, n)

(* s[a:b] *)
PySlice(s, a, b) == SubSeq(s, SliceIndex(a, Len(s)) + 1, SliceIndex(b, Len(s)))

(* s[a:b] = v on a bytearray: the slice is replaced, whatever its length *)
PySliceAssign(s, a, b, v) ==
    LET lo == SliceIndex(a, Len(s))
        hi == Max(SliceIndex(b, Len(s)), lo)
    IN SubSeq(s, 1, lo) \o v \o SubSeq(s, hi + 1, Len(s))

(* __len__ *)
zlen(zb) == zb.len - zb.pos

(* view(offset, length) for an integer length: the memoryview of           *)
(* _buffer[_pos + offset : stop], where                                    *)
(* stop = length and self._pos + offset + length or self._len              *)
view_stop(zb, offset, length) ==
    IF length # 0 /\ zb.pos + Max(0, offset) + length # 0
    THEN zb.pos + Max(0, offset) + length
    ELSE zb.len

view(zb, offset, length) ==
    PySlice(zb.buffer, zb.pos + Max(0, offset), view_stop(zb, offset, length))

(* view(offset) with length = None *)
view_all(zb, offset) == PySlice(zb.buffer, zb.pos + Max(0, offset), zb.len)

shift_buffer(zb) ==
    LET length == zlen(zb)
    IN IF length = 0 THEN [zb EXCEPT !.pos = 0, !.len = 0]
       ELSE IF zb.pos = 0 THEN zb
       ELSE [zb EXCEPT !.buffer = PySliceAssign(zb.buffer, 0, length, view_all(zb, 0)),
                       !.pos = 0, !.len = length]

(* len(m) for the memoryview m of _buffer[_len:] that fill reads into *)
fill_room(zb) ==
    LET s1 == shift_buffer(zb)
    IN Len(PySlice(s1.buffer, s1.len, Len(s1.buffer)))

(* fill without the early return of lines 103-104 *)
fill_always(zb, data, completely, at_least) ==
    LET s1 == shift_buffer(zb)
        length == Len(data)
        s2 == [s1 EXCEPT !.buffer = PySliceAssign(s1.buffer, s1.len, s1.len + length, data),
                         !.len = IF length # 0 THEN s1.len + length ELSE s1.len]
    IN IF completely /\ s2.len # s2.size THEN Call("fill", "EOFError", None, s2)
       ELSE IF at_least # None /\ zlen(s2) < at_least
       THEN Call("fill", "EOFError", None, s2)
       ELSE Call("fill", "ok", None, s2)

(* fill(fileobj, completely, at_least); data is what readinto stored in m *)
fill(zb, data, completely, at_least) ==
    IF at_least # None /\ zlen(zb) >= at_least THEN Call("fill", "ok", None, zb)
    ELSE LET s1 == shift_buffer(zb)
             length == Len(data)
             s2 == [s1 EXCEPT !.buffer = PySliceAssign(s1.buffer, s1.len, s1.len + length, data),
                              !.len = IF length # 0 THEN s1.len + length ELSE s1.len]
         IN IF completely /\ s2.len # s2.size THEN Call("fill", "EOFError", None, s2)
            ELSE IF at_least # None /\ zlen(s2) < at_least
            THEN Call("fill", "EOFError", None, s2)
            ELSE Call("fill", "ok", None, s2)

(* extend(buf) for a string-like buf *)
extend(zb, buf) ==
    LET s1 == shift_buffer(zb)
        length == Min(Len(buf), s1.size - s1.len)
        v == PySlice(buf, 0, length)
    IN Call("extend", "ok", length,
            [s1 EXCEPT !.buffer = PySliceAssign(s1.buffer, s1.len, s1.len + length, v),
                       !.len = s1.len + length])

(* extend(buf) for a ZeroCopyBuffer buf *)
extend_buffer(zb, src) ==
    LET s1 == shift_buffer(zb)
        length == Min(zlen(src), s1.size - s1.len)
        v == view(src, 0, length)
    IN Call("extend", "ok", length,
            [s1 EXCEPT !.buffer = PySliceAssign(s1.buffer, s1.len, s1.len + length, v),
                       !.len = s1.len + length])

delete(zb, length) ==
    Call("delete", "ok", None, [zb EXCEPT !.pos = Min(zb.pos + length, zb.len)])

(* replace(src, offset) for a string-like src; the assignment to a slice   *)
(* of a memoryview raises when the lengths differ                          *)
replace(zb, src, offset) ==
    IF offset < 0 THEN Call("replace", "TypeError", None, zb)
    ELSE IF Len(src) + offset > zlen(zb) THEN Call("replace", "Error", None, zb)
    ELSE IF Len(view(zb, offset, Len(src))) # Len(src)
    THEN Call("replace", "ValueError", None, zb)
    ELSE Call("replace", "ok", None,
              [zb EXCEPT !.buffer = PySliceAssign(zb.buffer, zb.pos + Max(0, offset),
                                                  view_stop(zb, offset, Len(src)), src)])

(* _struct_check_length(fmt, offset) for a format of fmt_size bytes *)
struct_check_length(zb, fmt_size, offset) ==
    IF offset < 0 THEN "struct.error"
    ELSE IF fmt_size > zlen(zb) - offset THEN "struct.error"
    ELSE "ok"

(* pack(fmt, offset, *vals) for a format of unsigned bytes *)
pack(zb, offset, vals) ==
    IF struct_check_length(zb, Len(vals), offset) # "ok"
    THEN Call("pack", "struct.error", None, zb)
    ELSE Call("pack", "ok", None,
              [zb EXCEPT !.buffer = PySliceAssign(zb.buffer, zb.pos + offset,
                                                  zb.pos + offset + Len(vals), vals)])

(* unpack(fmt, offset) for a format of fmt_size unsigned bytes *)
unpack(zb, fmt_size, offset) ==
    IF struct_check_length(zb, fmt_size, offset) # "ok"
    THEN Call("unpack", "struct.error", None, zb)
    ELSE Call("unpack", "ok", PySlice(zb.buffer, zb.pos + offset, zb.pos + offset + fmt_size), zb)

(***************************************************************************)
(* Reader                                                                  *)
(***************************************************************************)
VARIABLES
    items,                \* the items the input stream is made of
    stream,               \* the bytes of the source (self._inobj)
    srcpos,               \* number of bytes read from the source so far
    partial,              \* TRUE when the source may return short reads
    ignore_invalid_data,  \* argument of Reader.frames
    emit_meta_frames,     \* argument of Reader.frames
    pc,                   \* position of the generator
    buffer,               \* the bytearray of Reader.frames
    in_sync,              \* the local in_sync
    fo,                   \* the Reader's session fields (fileobj)
    consumed,             \* number of bytes deleted from the front of buffer
    accepted,             \* every frame accepted so far, yielded or not
    yielded,              \* every item the generator has yielded so far
    err                   \* the exception that ended the generator

VARIABLES
    hbuf,                 \* a buffer that starts with one 4-byte header
    hres                  \* what decoding it gave, done = FALSE before

VARIABLES
    z,                    \* a ZeroCopyBuffer: _size, _buffer, _pos, _len
    zsrc,                 \* number of bytes its file object has delivered
    zret                  \* the outcome of the last call on it

VARIABLES
    bits,                 \* one bitpack_into / bitunpack_from round trip
    ape,                  \* one APEFrame construction
    seek,                 \* one XingFrame.seekpoint call
    legacy                \* the generator of the module-level frames(f)

hvars == <<hbuf, hres>>

pvars == <<bits, ape, seek, legacy>>

zvars == <<z, zsrc, zret>>

rvars == <<items, stream, srcpos, partial, ignore_invalid_data, emit_meta_frames,
           pc, buffer, in_sync, fo, consumed, accepted, yielded, err>>

blocksize == 8192

ShortReads == {1, 7}

(* the sizes self._inobj.read(n) may return at source position p: all the  *)
(* bytes asked for unless the end is reached, or fewer when the source may *)
(* return short reads; 0 only at the end of the stream                     *)
ReadChoices(p, n) ==
    LET avail == Min(n, Len(stream) - p)
    IN IF partial THEN {avail} \cup {k \in ShortReads : k < avail} ELSE {avail}

(* buffer.extend(bytes p+1 .. q of the source) *)
Extend(b, p, q) == b \o SubSeq(stream, p + 1, q)

(* the while loop of Reader._fill_buffer: the source positions it can end  *)
(* at, from a buffer of buflen bytes and source position p                 *)
RECURSIVE FillLoop(_, _, _)
FillLoop(buflen, p, want) ==
    IF buflen >= want THEN {p}
    ELSE IF Len(stream) - p = 0 THEN {p}
    ELSE UNION { FillLoop(buflen + k, p + k, want) : k \in ReadChoices(p, blocksize) }

(* Reader._fill_buffer(buffer, want_length) from (b, p): the buffers it    *)
(* can leave, with err = "Exception" when it raises                        *)
fill_buffer(b, p, want) ==
    { LET b1 == Extend(b, p, q)
      IN [err |-> IF Len(b1) < want THEN "Exception" ELSE "ok",
          buffer |-> b1, srcpos |-> q]
      : q \in FillLoop(Len(b), p, want) }

Outcome(tag, e, b, p, sync, f, frame) ==
    [tag |-> tag, err |-> e, buffer |-> b, srcpos |-> p, in_sync |-> sync,
     fo |-> f, frame |-> frame]

NoFrame == [kind |-> "none", length |-> 0, version |-> None, header |-> NoHeader]
FrameOf(t) == [kind |-> t.kind, length |-> t.length, version |-> t.version,
               header |-> t.header]

(* the recovery without the test of lines 331-338: the candidate is taken  *)
(* whatever follows it                                                     *)
LookAhead_unconfirmed(t, r, c) ==
    Outcome("frame", "ok", r.buffer, r.srcpos, TRUE, c.fo, FrameOf(t))

(* lines 332-340: the look-ahead at offset frame.length gave c *)
LookAhead(t, r, c) ==
    IF c.err = "ok"
    THEN Outcome("frame", "ok", r.buffer, r.srcpos, TRUE, c.fo, FrameOf(t))
    ELSE IF c.err = "_InvalidFrame"
    THEN Outcome("noframe", "ok", r.buffer, r.srcpos, in_sync, c.fo, NoFrame)
    ELSE Outcome("error", c.err, r.buffer, r.srcpos, in_sync, c.fo, NoFrame)

(* lines 326-340: recovery from lost sync for the candidate t *)
Recover(t) ==
    { IF r.err # "ok"
      THEN Outcome("error", r.err, r.buffer, r.srcpos, in_sync, t.fo, NoFrame)
      ELSE LookAhead(t, r, TryFrames(1, r.buffer, t.fo, t.length, TRUE))
      : r \in fill_buffer(buffer, srcpos, t.length + 12) }

(* isinstance(frame, MetaFrame) *)
IsMetaFrame(frame) == frame.kind \in MetaKinds

(* line 348 if RIFFFrame were a MetaFrame *)
Emits_riffgated(frame) == frame.kind \in {"XingFrame", "MPEGFrame"} \/ emit_meta_frames

(* line 348: the frame is yielded *)
Emits(frame) == ~IsMetaFrame(frame) \/ emit_meta_frames

(* lines 342-349: the frame is filled, assembled and deleted from buffer *)
Accept(o) ==
    { IF r.err # "ok"
      THEN Outcome("error", r.err, r.buffer, r.srcpos, o.in_sync, o.fo, NoFrame)
      ELSE Outcome(IF Emits(o.frame) THEN "yield" ELSE "suppress", "ok",
                   r.buffer, r.srcpos, o.in_sync, o.fo, o.frame)
      : r \in fill_buffer(o.buffer, o.srcpos, o.frame.length) }

(* lines 350-358 without line 352: the sync state is left as it was *)
Reject_keepsync(o) ==
    { Outcome(IF ~ignore_invalid_data THEN "invalid" ELSE "skip", "ok",
              o.buffer, o.srcpos, o.in_sync, o.fo, NoFrame) }

(* lines 350-358: no frame at this position *)
Reject(o) ==
    { Outcome(IF ~ignore_invalid_data THEN "invalid" ELSE "skip", "ok",
              o.buffer, o.srcpos, FALSE, o.fo, NoFrame) }

(* lines 318-340: the dispatch loop built or refused t *)
Dispatched(t) ==
    IF t.err = "ok"
    THEN IF ~in_sync THEN Recover(t)
         ELSE {Outcome("frame", "ok", buffer, srcpos, in_sync, t.fo, FrameOf(t))}
    ELSE IF t.err = "_InvalidFrame"
    THEN {Outcome("noframe", "ok", buffer, srcpos, in_sync, t.fo, NoFrame)}
    ELSE {Outcome("error", t.err, buffer, srcpos, in_sync, t.fo, NoFrame)}

(* one iteration of the while loop of Reader.frames up to line 358 *)
Iteration ==
    UNION { IF o.tag = "frame" THEN Accept(o)
            ELSE IF o.tag = "noframe" THEN Reject(o)
            ELSE {o} : o \in Dispatched(TryFrames(1, buffer, fo, 0, ~in_sync)) }

(* Reader._offset: a class attribute that no method assigns *)
Reader_offset == 0

(* the byte offset among the arguments of exception e as Reader.frames     *)
(* raises it: the messages of lines 125, 163, 356 and 369 are built        *)
(* without one, and struct.error, IndexError and AttributeError come from  *)
(* the interpreter                                                         *)
ErrorOffset(e) == None

(* Reader._MIN_FRAME_SIZE, which the loop does not use *)
MIN_FRAME_SIZE == 38

(* the test of the while loop against _MIN_FRAME_SIZE *)
LoopTest_minframe(b) == IF Len(b) > MIN_FRAME_SIZE THEN "loop" ELSE "done"

(* the test of the while loop, line 316 *)
LoopTest(b) == IF Len(b) > 4 THEN "loop" ELSE "done"

Configs == [ignore_invalid_data : BOOLEAN, emit_meta_frames : BOOLEAN]

InitReader(sources) ==
    /\ items \in Streams
    /\ stream = Concat(items, 1)
    /\ partial \in sources
    /\ \E c \in Configs :
          /\ ignore_invalid_data = c.ignore_invalid_data
          /\ emit_meta_frames = c.emit_meta_frames
    /\ srcpos = 0
    /\ pc = "start"
    /\ buffer = <<>>
    /\ in_sync = TRUE
    /\ fo = NewFileobj
    /\ consumed = 0
    /\ accepted = <<>>
    /\ yielded = <<>>
    /\ err = "none"

(* lines 311-314: the first read *)
Start ==
    /\ pc = "start"
    /\ \E k \in ReadChoices(srcpos, blocksize) :
          /\ buffer' = Extend(buffer, srcpos, srcpos + k)
          /\ srcpos' = srcpos + k
          /\ pc' = LoopTest(buffer')
    /\ UNCHANGED <<items, stream, partial, ignore_invalid_data, emit_meta_frames,
                   in_sync, fo, consumed, accepted, yielded, err>>
    /\ UNCHANGED <<hvars, zvars, pvars>>

(* the frame object after frame.append, with where and how it was accepted: *)
(* pos is the stream offset of its first byte, fo_before and fo_after the  *)
(* session fields before and after the iteration                           *)
FrameRecord(o, emitted) ==
    [kind |-> o.frame.kind, length |-> o.frame.length, pos |-> consumed,
     header |-> o.frame.header, bytes |-> SubSeq(o.buffer, 1, o.frame.length),
     emitted |-> emitted, was_in_sync |-> in_sync, fo_before |-> fo,
     fo_after |-> o.fo]

(* the rest of the iteration with a del that leaves the last byte of the   *)
(* frame in the buffer                                                     *)
Consume_keeplast(o, n) ==
    /\ \E k \in ReadChoices(o.srcpos, blocksize) :
          /\ buffer' = Extend(SubSeq(o.buffer, n, Len(o.buffer)), o.srcpos,
                              o.srcpos + k)
          /\ srcpos' = o.srcpos + k
          /\ pc' = LoopTest(buffer')
    /\ consumed' = consumed + Min(n, Len(o.buffer))
    /\ in_sync' = o.in_sync
    /\ fo' = o.fo

(* the rest of the iteration after a frame was assembled: del, line 360 *)
Consume(o, n) ==
    /\ \E k \in ReadChoices(o.srcpos, blocksize) :
          /\ buffer' = Extend(SubSeq(o.buffer, n + 1, Len(o.buffer)), o.srcpos,
                              o.srcpos + k)
          /\ srcpos' = o.srcpos + k
          /\ pc' = LoopTest(buffer')
    /\ consumed' = consumed + Min(n, Len(o.buffer))
    /\ in_sync' = o.in_sync
    /\ fo' = o.fo

InvalidRecord(o) ==
    [kind |-> "bytearray", length |-> Min(500, Len(o.buffer)), pos |-> consumed,
     header |-> NoHeader, bytes |-> SubSeq(o.buffer, 1, Min(500, Len(o.buffer))),
     emitted |-> TRUE, was_in_sync |-> in_sync, fo_before |-> fo, fo_after |-> o.fo]

(* the iteration accepted a frame and yields it (line 349) *)
Yield(o) ==
    /\ Consume(o, o.frame.length)
    /\ accepted' = Append(accepted, FrameRecord(o, TRUE))
    /\ yielded' = Append(yielded, FrameRecord(o, TRUE))
    /\ err' = err

(* the iteration accepted a frame and does not yield it (line 348) *)
Suppress(o) ==
    /\ Consume(o, o.frame.length)
    /\ accepted' = Append(accepted, FrameRecord(o, FALSE))
    /\ UNCHANGED <<yielded, err>>

(* the iteration found no frame, without the del of line 358 *)
Skip_nodelete(o) ==
    /\ Consume(o, 0)
    /\ UNCHANGED <<accepted, yielded, err>>

(* the iteration found no frame and deletes one byte (line 358) *)
Skip(o) ==
    /\ Consume(o, 1)
    /\ UNCHANGED <<accepted, yielded, err>>

(* the iteration found no frame and ignore_invalid_data is false: the      *)
(* generator yields buffer[:500] (line 355) and is suspended before the    *)
(* raise                                                                   *)
Invalid(o) ==
    /\ buffer' = o.buffer
    /\ srcpos' = o.srcpos
    /\ in_sync' = o.in_sync
    /\ fo' = o.fo
    /\ yielded' = Append(yielded, InvalidRecord(o))
    /\ pc' = "raising"
    /\ UNCHANGED <<consumed, accepted, err>>

(* an exception other than _InvalidFrame left the iteration *)
Error(o) ==
    /\ buffer' = o.buffer
    /\ srcpos' = o.srcpos
    /\ in_sync' = o.in_sync
    /\ fo' = o.fo
    /\ err' = o.err
    /\ pc' = "error"
    /\ UNCHANGED <<consumed, accepted, yielded>>

(* one iteration of the while loop of Reader.frames, lines 316-360 *)
Step ==
    /\ pc = "loop"
    /\ \E o \in Iteration :
          CASE o.tag = "yield" -> Yield(o)
            [] o.tag = "suppress" -> Suppress(o)
            [] o.tag = "skip" -> Skip(o)
            [] o.tag = "invalid" -> Invalid(o)
            [] o.tag = "error" -> Error(o)
    /\ UNCHANGED <<items, stream, partial, ignore_invalid_data, emit_meta_frames>>
    /\ UNCHANGED <<hvars, zvars, pvars>>

(* line 356, on the next pull: raise MP3Error, 'encountered invalid data' *)
RaiseInvalid ==
    /\ pc = "raising"
    /\ pc' = "error"
    /\ err' = "MP3Error: encountered invalid data"
    /\ UNCHANGED <<items, stream, srcpos, partial, ignore_invalid_data, emit_meta_frames,
                   buffer, in_sync, fo, consumed, accepted, yielded>>
    /\ UNCHANGED <<hvars, zvars, pvars>>

vars == <<rvars, hvars, zvars, pvars>>

IdleHeader == hbuf = <<>> /\ hres = [done |-> FALSE, strict |-> FALSE]

IdleBuffer == z = ZeroCopyBuffer(0) /\ zsrc = 0 /\ zret = NoCall

NotInUse == [pc |-> "idle"]

IdleBits == bits = NotInUse

IdleAPE == ape = NotInUse

IdleSeek == seek = NotInUse

IdleLegacy == legacy = NotInUse

IdleOthers == IdleBits /\ IdleAPE /\ IdleSeek /\ IdleLegacy

Init == InitReader({FALSE}) /\ IdleHeader /\ IdleBuffer /\ IdleOthers

Next ==
    \/ Start
    \/ Step
    \/ RaiseInvalid

Spec == Init /\ [][Next]_vars

(***************************************************************************)
(* Header decoding: one buffer that starts with a 4-byte header is decoded *)
(* by Header2, by MPEGFrame, by XingFrame and by the dispatch loop of      *)
(* Reader.frames.                                                          *)
(***************************************************************************)
HeaderByte1 == {255, 254}
HeaderByte2 == 224..255 \cup {223}
HeaderByte3 == {2 * k : k \in 0..127}
HeaderByte4 == {192}

InitHeader ==
    /\ \E b1 \in HeaderByte1, b2 \in HeaderByte2, b3 \in HeaderByte3, b4 \in HeaderByte4 :
          hbuf = <<b1, b2, b3, b4, 0>>
    /\ hres = [done |-> FALSE, strict |-> FALSE]

Decode ==
    /\ ~hres.done
    /\ \E strict \in BOOLEAN :
          hres' = [done |-> TRUE, strict |-> strict,
                   header |-> Header2_init(hbuf, 0),
                   mpeg |-> MPEGFrame_init(hbuf, NewFileobj, 0, strict),
                   xing |-> XingFrame_init(hbuf, NewFileobj, 0, strict),
                   frame |-> TryFrames(1, hbuf, NewFileobj, 0, strict)]
    /\ UNCHANGED <<hbuf, rvars, zvars, pvars>>

IdleGenerator ==
    /\ items = <<>>
    /\ stream = <<>>
    /\ ignore_invalid_data = TRUE
    /\ emit_meta_frames = TRUE
    /\ srcpos = 0
    /\ pc = "idle"
    /\ buffer = <<>>
    /\ in_sync = TRUE
    /\ fo = NewFileobj
    /\ consumed = 0
    /\ accepted = <<>>
    /\ yielded = <<>>
    /\ err = "none"

IdleReader == IdleGenerator /\ partial = FALSE

HeaderInit == InitHeader /\ IdleReader /\ IdleBuffer /\ IdleOthers

HeaderNext == Decode

SpecHeader == HeaderInit /\ [][HeaderNext]_vars

(***************************************************************************)
(* A ZeroCopyBuffer under any sequence of calls.  Its file object delivers *)
(* the bytes 1, 2, ... MaxSource; extend, replace and pack take their      *)
(* arguments from small sets.                                              *)
(***************************************************************************)
MaxCap == 2
MaxSource == 3
MaxArg == 1
MaxGrow == 1

(* bytes p+1 .. p+k of the file object *)
SourceBytes(p, k) == [i \in 1..k |-> p + i]

(* the number of bytes readinto(m) may store for len(m) = room *)
ZReadChoices(room) ==
    LET avail == Min(room, MaxSource - zsrc)
    IN IF partial /\ avail > 0 THEN 1..avail ELSE {avail}

ArgBytes == {[i \in 1..n |-> 10 + i] : n \in 0..MaxArg}

PackValues == {<<21>>}

(* the ZeroCopyBuffer objects given to extend: ZeroCopyBuffer(n), filled   *)
(* by extend(a) and read up to d by delete(d)                              *)
ArgBuffers ==
    { delete(extend(ZeroCopyBuffer(Len(a)), a).z, d).z :
        a \in ArgBytes \ {<<>>}, d \in 0..1 }

InitBuffer ==
    /\ \E size \in 1..MaxCap : z = ZeroCopyBuffer(size)
    /\ zsrc = 0
    /\ zret = NoCall

Returns(r, args) ==
    /\ z' = r.z
    /\ zret' = [op |-> r.op, args |-> args, err |-> r.err, val |-> r.val]

ZFill ==
    /\ \E completely \in BOOLEAN, at_least \in {None} \cup 0..MaxCap :
          IF at_least # None /\ zlen(z) >= at_least
          THEN /\ Returns(fill(z, <<>>, completely, at_least),
                          [completely |-> completely, at_least |-> at_least])
               /\ zsrc' = zsrc
          ELSE \E k \in ZReadChoices(fill_room(z)) :
                  /\ Returns(fill(z, SourceBytes(zsrc, k), completely, at_least),
                             [completely |-> completely, at_least |-> at_least])
                  /\ zsrc' = zsrc + k
    /\ UNCHANGED <<rvars, hvars, pvars>>

ZExtend ==
    /\ \E buf \in ArgBytes : Returns(extend(z, buf), [buf |-> buf, bytes |-> buf])
    /\ zsrc' = zsrc
    /\ UNCHANGED <<rvars, hvars, pvars>>

ZExtendBuffer ==
    /\ Len(z.buffer) < z.size + MaxGrow
    /\ \E src \in ArgBuffers :
          Returns(extend_buffer(z, src), [buf |-> src, bytes |-> view_all(src, 0)])
    /\ zsrc' = zsrc
    /\ UNCHANGED <<rvars, hvars, pvars>>

ZDelete ==
    /\ \E length \in 0..MaxCap : Returns(delete(z, length), [length |-> length])
    /\ zsrc' = zsrc
    /\ UNCHANGED <<rvars, hvars, pvars>>

ZReplace ==
    /\ \E src \in ArgBytes, offset \in 0..MaxCap - 1 : Returns(replace(z, src, offset), [src |-> src, offset |-> offset])
    /\ zsrc' = zsrc
    /\ UNCHANGED <<rvars, hvars, pvars>>

ZPack ==
    /\ \E vals \in PackValues, offset \in 0..MaxCap - 1 : Returns(pack(z, offset, vals), [offset |-> offset, vals |-> vals])
    /\ zsrc' = zsrc
    /\ UNCHANGED <<rvars, hvars, pvars>>

ZUnpack ==
    /\ \E fmt_size \in 1..MaxArg, offset \in 0..MaxCap - 1 :
          Returns(unpack(z, fmt_size, offset), [fmt_size |-> fmt_size, offset |-> offset])
    /\ zsrc' = zsrc
    /\ UNCHANGED <<rvars, hvars, pvars>>

(* view(offset, length), which leaves the object as it is *)
ZView ==
    /\ \E offset \in 0..MaxCap, length \in {None} \cup 0..MaxCap + 1 :
          Returns(Call("view", "ok",
                       IF length = None THEN view_all(z, offset) ELSE view(z, offset, length),
                       z),
                  [offset |-> offset, length |-> length])
    /\ zsrc' = zsrc
    /\ UNCHANGED <<rvars, hvars, pvars>>

BufferNext ==
    \/ ZFill
    \/ ZExtend
    \/ ZExtendBuffer
    \/ ZDelete
    \/ ZReplace
    \/ ZPack
    \/ ZUnpack
    \/ ZView

BufferInit == InitBuffer /\ IdleReader /\ IdleHeader /\ IdleOthers

SpecBuffer == BufferInit /\ [][BufferNext]_vars

(***************************************************************************)
(* A ZeroCopyBuffer under any sequence of fill, extend and delete calls.   *)
(***************************************************************************)
WindowNext ==
    \/ ZFill
    \/ ZExtend
    \/ ZExtendBuffer
    \/ ZDelete

SpecWindow == BufferInit /\ [][WindowNext]_vars

(***************************************************************************)
(* A ZeroCopyBuffer filled from a file object whose readinto may store     *)
(* fewer bytes than there is room for while more are to come (a pipe, a    *)
(* socket), and read by delete.                                            *)
(***************************************************************************)
ShortReadsInit == InitBuffer /\ IdleGenerator /\ partial = TRUE /\ IdleHeader /\ IdleOthers

ShortReadsNext ==
    \/ ZFill
    \/ ZDelete

SpecShortReads == ShortReadsInit /\ [][ShortReadsNext]_vars

(***************************************************************************)
(* _bitpack.py: values are packed into a buffer with bitpack_into and read *)
(* back with bitunpack_from, for every format of up to MaxFields fields.   *)
(***************************************************************************)
MaxFields == 2

(* 'i:3', 'i:11', 'b' and 'i:2=2', a field with a default *)
BitFields ==
    {Field("i", 3), Field("i", 11), Field("b", 1), [Field("i", 2) EXCEPT !.default = 2]}

BitValues == {0, 1, 6, 2050, -3}

BitFormats == UNION { [1..n -> BitFields] : n \in 1..MaxFields }

InitBits ==
    \E fmt \in BitFormats, offset \in {0, 1}, filler \in {0, 255} :
       \E values \in [1..Len(fmt) -> BitValues] :
          bits = [pc |-> "new", fmt |-> fmt, values |-> values, offset |-> offset,
                  before |-> Bytes(offset + FormatLength(fmt), filler)]

BitPack ==
    /\ bits.pc = "new"
    /\ bits' = [pc |-> "packed", fmt |-> bits.fmt, values |-> bits.values,
                offset |-> bits.offset, before |-> bits.before,
                packed |-> bitpack_into(bits.fmt, bits.before, bits.offset, bits.values)]
    /\ UNCHANGED <<rvars, hvars, zvars, ape, seek, legacy>>

BitUnpack ==
    /\ bits.pc = "packed"
    /\ bits.packed.err = "ok"
    /\ bits' = [pc |-> "unpacked", fmt |-> bits.fmt, values |-> bits.values,
                offset |-> bits.offset, before |-> bits.before, packed |-> bits.packed,
                unpacked |-> bitunpack_from(bits.fmt, bits.packed.buffer, bits.offset)]
    /\ UNCHANGED <<rvars, hvars, zvars, ape, seek, legacy>>

BitsInit ==
    InitBits /\ IdleReader /\ IdleHeader /\ IdleBuffer /\ IdleAPE /\ IdleSeek /\ IdleLegacy

BitsNext ==
    \/ BitPack
    \/ BitUnpack

SpecBits == BitsInit /\ [][BitsNext]_vars

(***************************************************************************)
(* APEFrame: one buffer that holds 'APETAGEX', a version and a length at   *)
(* an offset is handed to the constructor.                                 *)
(***************************************************************************)
ApeVersions == {1000, 2000, 1, 2001}

ApeLengths == {0, 1, 258, 16909060}

ApeOffsets == {0, 1, 2}

InitAPE ==
    \E version \in ApeVersions, length \in ApeLengths, offset \in ApeOffsets, strict \in BOOLEAN :
       ape = [pc |-> "new", version |-> version, taglength |-> length, offset |-> offset,
              strict |-> strict,
              buffer |-> Bytes(offset, 0) \o S_APETAGEX \o LE32(version) \o LE32(length)]

Construct ==
    /\ ape.pc = "new"
    /\ ape' = [ape EXCEPT !.pc = APEFrame_init(ape.buffer, NewFileobj, ape.offset, ape.strict).err]
    /\ UNCHANGED <<rvars, hvars, zvars, bits, seek, legacy>>

Inspect ==
    /\ ape.pc = "ok"
    /\ ape' = [pc |-> "done", version |-> ape.version, taglength |-> ape.taglength,
               offset |-> ape.offset, strict |-> ape.strict, buffer |-> ape.buffer,
               frame |-> FrameOf(APEFrame_init(ape.buffer, NewFileobj, ape.offset, ape.strict))]
    /\ UNCHANGED <<rvars, hvars, zvars, bits, seek, legacy>>

APEInit ==
    InitAPE /\ IdleReader /\ IdleHeader /\ IdleBuffer /\ IdleBits /\ IdleSeek /\ IdleLegacy

APENext ==
    \/ Construct
    \/ Inspect

SpecAPE == APEInit /\ [][APENext]_vars

(***************************************************************************)
(* XingFrame.seekpoint.  percent is a float: it is held as the number p of *)
(* steps of 1 / PercentSteps, a power of two, so that every product and    *)
(* difference of the method is exact in binary floating point; int()       *)
(* truncates.  toc is the list self.toc, entry i of the list at i + 1.     *)
(***************************************************************************)
PercentBits == 2

PercentSteps == 2 ^ PercentBits

(* x and a or b *)
AndOr(x, a, b) == IF x /\ a # 0 THEN a ELSE b

(* truncation of n / d toward zero, as int() does *)
Trunc(n, d) == IF n >= 0 THEN n \div d ELSE -((-n) \div d)

seekpoint(p, toc, file_size, total_size) ==
    LET size == IF Truthy(file_size) THEN file_size ELSE total_size
        percent == IF p > 100 * PercentSteps THEN 100 * PercentSteps
                   ELSE IF p < 0 THEN 0 ELSE p
        floor == percent \div PercentSteps
        index == IF floor > 99 THEN 99 ELSE floor
    IN IF index + 1 > Len(toc) THEN [err |-> "IndexError"]
       ELSE LET factor_a == toc[index + 1]
                factor_b == AndOr(index < 99, IF index < 99 THEN toc[index + 2] ELSE 0, 256)
            IN [err |-> "ok", index |-> index, factor_a |-> factor_a, factor_b |-> factor_b,
                val |-> Trunc((factor_a * PercentSteps
                                 + (factor_b - factor_a) * (percent - index * PercentSteps)) * size,
                              256 * PercentSteps)]

(* a table of contents of 100 entries that holds 0 in its first zeros      *)
(* entries and rises to 253 after them                                     *)
Toc(zeros) == [i \in 1..100 |-> IF i <= zeros THEN 0 ELSE ((i - 1) * 256) \div 100]

TocZeros == {1, 3}

FileSizes == {None, 0, 25600}

InitSeek ==
    \E p \in (-PercentSteps)..(101 * PercentSteps), zeros \in TocZeros, file_size \in FileSizes :
       seek = [pc |-> "new", p |-> p, toc |-> Toc(zeros), file_size |-> file_size,
               total_size |-> 51200]

Seekpoint ==
    /\ seek.pc = "new"
    /\ seek' = [pc |-> "done", p |-> seek.p, toc |-> seek.toc, file_size |-> seek.file_size,
                total_size |-> seek.total_size,
                ret |-> seekpoint(seek.p, seek.toc, seek.file_size, seek.total_size)]
    /\ UNCHANGED <<rvars, hvars, zvars, bits, ape, legacy>>

SeekInit ==
    InitSeek /\ IdleReader /\ IdleHeader /\ IdleBuffer /\ IdleBits /\ IdleAPE /\ IdleLegacy

SeekNext == Seekpoint

SpecSeek == SeekInit /\ [][SeekNext]_vars

(***************************************************************************)
(* The module-level generator frames(f), lines 688-756, over a file that   *)
(* returns every byte asked for until its end.                             *)
(***************************************************************************)
min_dat == 16

(* frameheader(dat, i): after the length test, line 578 evaluates          *)
(* File.is_data_frame; the module defines and imports no name File, so the *)
(* lookup raises NameError and the lines after it are never reached        *)
frameheader(dat, i) ==
    IF Len(dat) - i < 4 THEN [err |-> "MP3FrameHeaderError", header |-> NoHeader]
    ELSE [err |-> "NameError", header |-> NoHeader]

(* framelen(hdr), lines 670-686 *)
framelen(hdr) ==
    LET mul == IF hdr.version = 1
               THEN (IF hdr.layer = 1 THEN 12 ELSE 144)
               ELSE (IF hdr.layer = 1 THEN 240 ELSE 72)
        slot == IF hdr.layer = 1 THEN 4 ELSE 1
    IN (((mul * hdr.bitrate * 1000) \div hdr.samplingrate) + (hdr.padding * slot)) * slot

(* lines 716-721: the buffer after the fill loop *)
LegacyFill(g) ==
    LET k == Min(Max(g.i + min_dat - Len(g.dat), 0), Len(g.stream) - g.fpos)
    IN [g EXCEPT !.dat = g.dat \o SubSeq(g.stream, g.fpos + 1, g.fpos + k),
                 !.fpos = g.fpos + k]

(* lines 726-732: the frame found by the last iteration is yielded, and    *)
(* its bytes, or those of the tag, leave the buffer                        *)
LegacyPass(g) ==
    [g EXCEPT !.yielded = IF g.frame = 1
                          THEN Append(g.yielded, [header |-> g.hdr, data |-> SubSeq(g.dat, 1, g.i)])
                          ELSE g.yielded,
              !.j = g.j + g.i,
              !.dat = SubSeq(g.dat, g.i + 1, Len(g.dat))]

(* lines 737-752 for the header h that frameheader returned or raised;     *)
(* MP3FrameHeaderError is re-raised as MP3Error by lines 754-756           *)
LegacyHeader(g, h) ==
    IF h.err = "ok"
    THEN [g EXCEPT !.hdr = h.header, !.i = framelen(h.header), !.frame = 1, !.no = g.no + 1]
    ELSE [g EXCEPT !.pc = "error",
                   !.err = IF h.err = "MP3FrameHeaderError" THEN "MP3Error" ELSE h.err]

(* lines 734-752: what is at the front of the buffer *)
LegacyParse(g) ==
    IF Len(g.dat) < min_dat THEN [g EXCEPT !.pc = "done"]
    ELSE IF startswith(g.dat, S_TAG, 0) THEN [g EXCEPT !.frame = 0, !.i = 128]
    ELSE IF startswith(g.dat, S_ID3, 0)
    THEN [g EXCEPT !.frame = 0,
                   !.i = Shl(g.dat[7], 21) + Shl(g.dat[8], 14) + Shl(g.dat[9], 7) + g.dat[10] + 10]
    ELSE LegacyHeader(g, frameheader(g.dat, 0))

(* one iteration of the while loop from the state f the fill loop left *)
LegacyIteration(f) ==
    IF Len(f.dat) < f.i THEN [f EXCEPT !.pc = "done"] ELSE LegacyParse(LegacyPass(f))

LegacyStreams == ShortStreams \cup ExtraStreams \cup {<<>>}

InitLegacy ==
    \E its \in LegacyStreams :
       legacy = [pc |-> "loop", items |-> its, stream |-> Concat(its, 1), fpos |-> 0,
                 dat |-> <<>>, frame |-> 0, no |-> 0, i |-> 0, j |-> 0, hdr |-> NoHeader,
                 yielded |-> <<>>, err |-> "none"]

LegacyStep ==
    /\ legacy.pc = "loop"
    /\ legacy' = LegacyIteration(LegacyFill(legacy))
    /\ UNCHANGED <<rvars, hvars, zvars, bits, ape, seek>>

LegacyInit ==
    InitLegacy /\ IdleReader /\ IdleHeader /\ IdleBuffer /\ IdleBits /\ IdleAPE /\ IdleSeek

LegacyNext == LegacyStep

SpecLegacy == LegacyInit /\ [][LegacyNext]_vars

(***************************************************************************)
(* Properties of the Reader                                                *)
(***************************************************************************)
ItemClasses == {Item(items[i]).class : i \in 1..Len(items)}

(* the stream is made of valid MPEG frames only *)
ValidFrameStream == ItemClasses \subseteq {"mpeg"}

(* yielded item i is the MPEG frame that item i of the stream holds *)
IsFrameOfItem(y, i) ==
    /\ y.kind = "MPEGFrame"
    /\ y.pos = ItemStart(items, i)
    /\ y.length = Item(items[i]).length
    /\ y.bytes = Item(items[i]).bytes

(* C1: over a stream of exactly N valid consecutive MPEG frames the        *)
(* generator yields the frames of the stream in order, each with the       *)
(* length the formula gives for its header, it ends having yielded all N,  *)
(* raises nothing and never leaves the in-sync state.                      *)
C1_ExactlyTheFrames ==
    ValidFrameStream =>
        /\ in_sync
        /\ pc \in {"start", "loop", "done"}
        /\ Len(yielded) <= Len(items)
        /\ \A i \in 1..Len(yielded) : IsFrameOfItem(yielded[i], i)
        /\ pc = "done" => Len(yielded) = Len(items)

C1_Witness ==
    /\ ValidFrameStream
    /\ pc = "done"
    /\ Len(items) >= 3
    /\ Len(yielded) = Len(items)
    /\ \E i \in 1..Len(items) : Item(items[i]).length # Item(items[1]).length

(* the indexes of the frames of the stream whose body has a flipped byte *)
Corrupted == {i \in 1..Len(items) : Item(items[i]).class = "mpeg-corrupted"}

(* a stream of MPEG frames of which exactly one has a flipped body byte *)
OneCorruptedFrame ==
    /\ ItemClasses \subseteq {"mpeg", "mpeg-corrupted"}
    /\ Cardinality(Corrupted) = 1

(* every frame of the stream after the corrupted one has been yielded *)
FollowingFramesYielded ==
    \A i \in 1..Len(items) :
        (\E k \in Corrupted : k < i) =>
            \E j \in 1..Len(yielded) : IsFrameOfItem(yielded[j], i)

(* C2: over a stream of valid MPEG frames one of which has a byte flipped  *)
(* in its body, the generator raises nothing, and when it has come to its  *)
(* end it is in the in-sync state and has yielded every frame that follows *)
(* the corrupted one, at least N - 1 frames in all.                        *)
C2_RegainsSync ==
    OneCorruptedFrame =>
        /\ pc \in {"start", "loop", "done"}
        /\ pc = "done" =>
              /\ in_sync
              /\ FollowingFramesYielded
              /\ Len(yielded) >= Len(items) - 1

C2_Witness ==
    /\ OneCorruptedFrame
    /\ pc = "done"
    /\ Len(items) >= 3
    /\ 1 \in Corrupted
    /\ FollowingFramesYielded
    /\ Len(yielded) >= 2

(* a stream of valid MPEG frames that ends inside a frame *)
TruncatedFinalFrame ==
    /\ Len(items) >= 1
    /\ Item(items[Len(items)]).class = "truncated"
    /\ \A i \in 1..(Len(items) - 1) : Item(items[i]).class = "mpeg"

(* C3: with invalid data skipped, a stream that ends inside a recognised   *)
(* frame ends the sequence without an error and without that frame.        *)
C3_TruncatedFrameEndsGracefully ==
    (ignore_invalid_data /\ TruncatedFinalFrame) =>
        /\ pc # "error"
        /\ Len(yielded) <= Len(items) - 1

FrameKinds == {"XingFrame", "MPEGFrame", "RIFFFrame", "ID3Frame", "APEFrame"}

(* C4: with ignore_invalid_data false a position where no variant is       *)
(* accepted raises the invalid-data error, and every item the generator    *)
(* yields is a frame.                                                      *)
C4_OnlyFramesAreYielded ==
    \A i \in 1..Len(yielded) : yielded[i].kind \in FrameKinds

(* the buffer starts with a 'fmt ' chunk whose format tag is not 0x55 *)
UnsupportedFmt(b) ==
    /\ startswith(b, S_fmt, 0)
    /\ Len(b) >= 10
    /\ U16LE(b, 8) # 85

(* C5: once the RIFF/WAVE header was seen, an iteration that starts at a   *)
(* 'fmt ' chunk with a format tag other than 0x55 raises the unsupported   *)
(* format error: nothing is skipped, yielded or accepted, in either        *)
(* setting of ignore_invalid_data and in either sync state.                *)
C5_UnsupportedFormatIsFatal ==
    [][ (pc = "loop" /\ fo.has_riff_header /\ UnsupportedFmt(buffer)) =>
            /\ pc' = "error"
            /\ err' = "MP3Error: non MPEG 1 Layer III data"
            /\ UNCHANGED <<buffer, consumed, yielded, accepted, in_sync>> ]_vars

C5_Witness ==
    /\ pc = "error"
    /\ err = "MP3Error: non MPEG 1 Layer III data"
    /\ fo.has_riff_header
    /\ UnsupportedFmt(buffer)
    /\ ~in_sync
    /\ ignore_invalid_data

(* the raw field codes of the header at the start of b *)
RawSync(b) == b[1] * 8 + b[2] \div 32
RawVersion(b) == (b[2] \div 8) % 4
RawLayer(b) == (b[2] \div 2) % 4
RawBitrate(b) == b[3] \div 16
RawRate(b) == (b[3] \div 4) % 4

Malformed(b) ==
    \/ RawSync(b) # 2047
    \/ RawVersion(b) = 1
    \/ RawLayer(b) = 0
    \/ RawBitrate(b) \in {0, 15}
    \/ RawRate(b) = 3

(* C6: a header with a bad sync word, the reserved version or layer, a     *)
(* free or bad bitrate or the reserved sampling rate is rejected by        *)
(* Header2 with MP3FrameHeaderError, and no other header is; MPEGFrame and *)
(* XingFrame turn the rejection into _InvalidFrame before any length is    *)
(* computed, and the dispatch loop of Reader.frames never sees             *)
(* MP3FrameHeaderError.                                                    *)
C6_MalformedHeaderRejected ==
    hres.done =>
        /\ Malformed(hbuf) => hres.header.err = "MP3FrameHeaderError"
        /\ ~Malformed(hbuf) => hres.header.err = "ok"
        /\ Malformed(hbuf) =>
              /\ hres.mpeg.err = "_InvalidFrame" /\ hres.mpeg.length = None
              /\ hres.xing.err = "_InvalidFrame" /\ hres.xing.length = None
              /\ hres.frame.err = "_InvalidFrame"
        /\ hres.mpeg.err # "MP3FrameHeaderError"
        /\ hres.xing.err # "MP3FrameHeaderError"
        /\ hres.frame.err # "MP3FrameHeaderError"

C6_Witness ==
    /\ hres.done
    /\ RawSync(hbuf) = 2047
    /\ RawBitrate(hbuf) = 15
    /\ hres.header.err = "MP3FrameHeaderError"
    /\ hres.frame.err = "_InvalidFrame"

(* the frame starts with a valid header and carries the Xing or Info tag   *)
(* after header and side information, or two bytes later under CRC         *)
HasXingTag(f) ==
    /\ f.header # NoHeader
    /\ LET o == Header2_length(f.header, 1)
       IN \/ startswith(f.bytes, S_Xing, o)
          \/ startswith(f.bytes, S_Info, o)
          \/ (f.header.crc = 1 /\ ( startswith(f.bytes, S_Xing, o + 2)
                                    \/ startswith(f.bytes, S_Info, o + 2) ))

(* C7: a frame accepted at a position that holds a valid header and the    *)
(* Xing or Info tag, has_xing_header not being False, is a XingFrame of    *)
(* the length of the MPEG frame, and has_xing_header is True after it.     *)
C7_XingAccepted ==
    \A i \in 1..Len(accepted) :
        (accepted[i].fo_before.has_xing_header # 0 /\ HasXingTag(accepted[i])) =>
            /\ accepted[i].kind = "XingFrame"
            /\ accepted[i].length = MPEGFrame_length(accepted[i].header)
            /\ accepted[i].fo_after.has_xing_header = 1

(* C8 as stated: with the frames other than MPEG frames disabled, no RIFF, *)
(* ID3 or APE frame is yielded.                                            *)
C8_DisabledKindsNotYielded ==
    ~emit_meta_frames =>
        \A i \in 1..Len(yielded) :
            yielded[i].kind \notin {"RIFFFrame", "ID3Frame", "APEFrame"}

(* C8, amended: an accepted MPEG or RIFF frame is yielded whatever the     *)
(* configuration; an accepted ID3 or APE frame is yielded if and only if   *)
(* emit_meta_frames is set; yielded or not, an accepted frame leaves the   *)
(* buffer with all its bytes and the reader is in sync after it.           *)
C8_MetaFramesGated ==
    [][ Len(accepted') > Len(accepted) =>
            LET f == accepted'[Len(accepted')]
            IN /\ f.kind \in {"XingFrame", "MPEGFrame", "RIFFFrame"} =>
                      yielded' = Append(yielded, f)
               /\ f.kind \in {"ID3Frame", "APEFrame"} =>
                      yielded' = IF emit_meta_frames THEN Append(yielded, f) ELSE yielded
               /\ consumed' = consumed + f.length
               /\ f.bytes = SubSeq(stream, consumed + 1, consumed + f.length)
               /\ in_sync' ]_vars

C8_Witness ==
    /\ ~emit_meta_frames
    /\ \E i \in 1..Len(accepted) : accepted[i].kind = "ID3Frame" /\ ~accepted[i].emitted
    /\ \E i \in 1..Len(accepted) : accepted[i].kind = "APEFrame" /\ ~accepted[i].emitted
    /\ \E i \in 1..Len(yielded) : yielded[i].kind = "RIFFFrame"

(* every frame of the stream is shorter than the buffer capacity *)
FramesShorterThanCapacity ==
    \A i \in 1..Len(items) : Item(items[i]).length < blocksize

(* C9: over a stream whose frames are all shorter than the capacity the    *)
(* buffer never holds more than 8192 unconsumed bytes.                     *)
C9_BufferBounded ==
    FramesShorterThanCapacity => Len(buffer) <= blocksize

(* C10: after any sequence of fill, extend, delete, replace, pack and      *)
(* unpack calls with non-negative arguments, 0 <= pos <= len <= capacity,  *)
(* and nothing is written past the capacity: the backing array holds       *)
(* capacity bytes.                                                         *)
C10_WindowWithinCapacity ==
    /\ 0 <= z.pos
    /\ z.pos <= z.len
    /\ z.len <= z.size
    /\ Len(z.buffer) <= z.size

(***************************************************************************)
(* Properties of ZeroCopyBuffer.fill and ZeroCopyBuffer.view               *)
(***************************************************************************)
(* the bytes of the window [_pos, _len) *)
Window(zb) == SubSeq(zb.buffer, zb.pos + 1, zb.len)

IsPrefix(a, b) == Len(a) <= Len(b) /\ SubSeq(b, 1, Len(a)) = a

(* the last call was fill(at_least = n) with completely left False *)
FilledAtLeast(r) ==
    r.op = "fill" /\ r.args.completely = FALSE /\ r.args.at_least # None

C12_ViewWithinWindow ==
    (zret.op = "view" /\ zret.args.length # None) =>
        IF zret.args.offset + zret.args.length > zlen(z)
        THEN zret.err # "ok"
        ELSE /\ zret.err = "ok"
             /\ zret.val = SubSeq(Window(z), zret.args.offset + 1,
                                  zret.args.offset + zret.args.length)

(***************************************************************************)
(* Properties of the frame length                                          *)
(***************************************************************************)
(* MPEG 1 Layer III, 128 kbit/s, 44100 Hz, no padding: FF FB 90 *)
Header417(b) == b[1] = 255 /\ b[2] = 251 /\ b[3] = 144

(* C13: for every valid header MPEGFrame computes the length of the        *)
(* documented formula from the decoded version, layer, bitrate (kbit/s),   *)
(* sampling rate (Hz) and padding bit, with truncating division; the       *)
(* length is positive, and it is 417 for MPEG 1 Layer III at 128 kbit/s    *)
(* and 44100 Hz without padding.                                           *)
C13_FrameLengthFormula ==
    (hres.done /\ ~Malformed(hbuf)) =>
        LET h == hres.header.header
        IN /\ hres.header.err = "ok"
           /\ h.version \in {1, 2, V25}
           /\ h.layer \in {1, 2, 3}
           /\ h.padding \in {0, 1}
           /\ h.bitrate = CodeBitrate(RawVersion(hbuf), RawLayer(hbuf), RawBitrate(hbuf))
           /\ h.samplingrate = CodeRate(RawVersion(hbuf), RawRate(hbuf))
           /\ hres.mpeg.err = "ok"
           /\ hres.mpeg.length =
                 FormulaLength(h.version, h.layer, h.bitrate, h.samplingrate, h.padding)
           /\ hres.mpeg.length > 0
           /\ Header417(hbuf) =>
                 h.bitrate = 128 /\ h.samplingrate = 44100 /\ hres.mpeg.length = 417

C13_Witness ==
    /\ hres.done
    /\ Header417(hbuf)
    /\ hres.mpeg.err = "ok"
    /\ hres.mpeg.length = 417

(***************************************************************************)
(* Properties of bitpack_into and bitunpack_from                           *)
(***************************************************************************)
(* what field f holds of value v: the low bits of an Integer, 0 or 1 for a *)
(* Boolean                                                                 *)
Stored(f, v) ==
    IF f.type = "b" THEN (IF v = 0 THEN 0 ELSE 1) ELSE v % (2 ^ f.length)

(* bit k of a buffer, counted from the most significant bit of its first   *)
(* byte                                                                    *)
BitAt(b, k) == (b[(k \div 8) + 1] \div (2 ^ (7 - (k % 8)))) % 2

(* the bits of the fields lie most significant bit first from the offset   *)
(* on, and every other bit of the buffer is as it was                      *)
PackedLayout ==
    LET fmt == bits.fmt
        first(i) == 8 * bits.offset + BitsBefore(fmt, i)
        total == 8 * bits.offset + SumLengths(fmt, 1)
    IN /\ bits.packed.err = "ok"
       /\ Len(bits.packed.buffer) = Len(bits.before)
       /\ \A i \in 1..Len(fmt) : \A j \in 0..fmt[i].length - 1 :
             BitAt(bits.packed.buffer, first(i) + j)
               = (Stored(fmt[i], bits.values[i]) \div (2 ^ (fmt[i].length - 1 - j))) % 2
       /\ \A k \in 0..8 * Len(bits.before) - 1 :
             (k < 8 * bits.offset \/ k >= total)
                => BitAt(bits.packed.buffer, k) = BitAt(bits.before, k)

(* the fields whose default is not the value they were given *)
DefaultMissed ==
    {i \in 1..Len(bits.fmt) :
        bits.fmt[i].default # None /\ Stored(bits.fmt[i], bits.values[i]) # bits.fmt[i].default}

(* C14, as stated: for every format and every list of values, unpacking    *)
(* what was packed returns each Integer masked to its width and each       *)
(* Boolean as 0 or 1, and the fields lie most significant bit first.       *)
C14_UnpackInvertsPack ==
    /\ bits.pc \in {"packed", "unpacked"} => PackedLayout
    /\ bits.pc = "unpacked" =>
          /\ bits.unpacked.err = "ok"
          /\ bits.unpacked.values = [i \in 1..Len(bits.fmt) |-> Stored(bits.fmt[i], bits.values[i])]

(* C14, amended: the same for every format and list of values in which     *)
(* each field that declares a default is given that default; when a field  *)
(* is given another value the bits are packed all the same and             *)
(* bitunpack_from raises invalid_input_error.                              *)
C14_UnpackInvertsPackUnlessDefault ==
    /\ bits.pc \in {"packed", "unpacked"} => PackedLayout
    /\ (bits.pc = "unpacked" /\ DefaultMissed = {}) =>
          /\ bits.unpacked.err = "ok"
          /\ bits.unpacked.values = [i \in 1..Len(bits.fmt) |-> Stored(bits.fmt[i], bits.values[i])]
    /\ (bits.pc = "unpacked" /\ DefaultMissed # {}) =>
          bits.unpacked.err = "bitpack.invalid_input_error"

(* a value wider than its field, across a byte boundary, read back masked, *)
(* next to a field given its default                                       *)
C14_Witness ==
    /\ bits.pc = "unpacked"
    /\ bits.unpacked.err = "ok"
    /\ bits.offset = 1
    /\ \E i \in 1..Len(bits.fmt) :
          /\ bits.fmt[i].length = 11
          /\ bits.values[i] = 2050
          /\ bits.unpacked.values[i] = 2
          /\ i > 1
    /\ \E i \in 1..Len(bits.fmt) : bits.fmt[i].default = 2 /\ bits.values[i] = 6

(***************************************************************************)
(* Properties of APEFrame                                                  *)
(***************************************************************************)
(* C15: a buffer with 'APETAGEX', a little-endian version and a length at  *)
(* the offset gives an APE frame of length + 32 bytes, never an error; its *)
(* version is V2 for the version field 2000 and V1 for 1000.               *)
C15_APEFrameConstructed ==
    ape.pc \notin {"idle", "new"} =>
        /\ ape.pc \in {"ok", "done"}
        /\ ape.pc = "done" =>
              /\ ape.frame.kind = "APEFrame"
              /\ ape.frame.length = ape.taglength + 32
              /\ ape.version = 2000 => ape.frame.version = APE_V2
              /\ ape.version = 1000 => ape.frame.version = APE_V1

(***************************************************************************)
(* Properties of the errors and of the recovery of Reader.frames           *)
(***************************************************************************)
FatalErrors ==
    {"MP3Error: encountered invalid data", "MP3Error: non MPEG 1 Layer III data",
     "Exception"}

(* C16: a fatal error of the Reader (invalid data, unsupported format,     *)
(* unexpected end of stream) gives the caller the byte offset at which it  *)
(* occurred, in the exception or in Reader._offset, and that offset is the *)
(* number of bytes consumed before the failing position.                   *)
C16_FatalErrorCarriesOffset ==
    (pc = "error" /\ err \in FatalErrors) =>
        (ErrorOffset(err) = consumed \/ Reader_offset = consumed)

(***************************************************************************)
(* Properties of XingFrame.seekpoint                                       *)
(***************************************************************************)
(* C17: seekpoint clamps percent to [0, 100], takes index =                *)
(* min(floor(percent), 99) and interpolates between toc[index] and         *)
(* toc[index + 1], whatever that entry holds, for index < 99, and between  *)
(* toc[99] and 256 for index = 99; no entry past 99 is read.               *)
C17_SeekpointInterpolates ==
    seek.pc = "done" =>
        LET clamped == IF seek.p > 100 * PercentSteps THEN 100 * PercentSteps
                       ELSE IF seek.p < 0 THEN 0 ELSE seek.p
            index == IF clamped \div PercentSteps > 99 THEN 99 ELSE clamped \div PercentSteps
        IN /\ seek.ret.err = "ok"
           /\ seek.ret.index = index
           /\ seek.ret.factor_a = seek.toc[index + 1]
           /\ seek.ret.factor_b = (IF index < 99 THEN seek.toc[index + 2] ELSE 256)

(***************************************************************************)
(* Properties of the module-level generator frames(f)                      *)
(***************************************************************************)
IsFrameItem(name) == Item(name).class = "mpeg"

ItemBytes(name) == Item(name).bytes

(* the classes of the items that are neither MP3 frames nor ID3 tags *)
ForeignClasses == {"garbage", "riff", "fmt", "fmt-pcm", "data", "ape"}

LegacyClasses == {Item(legacy.items[k]).class : k \in 1..Len(legacy.items)}

(* C18: frames(f) raises MP3Error for a file that holds bytes which are    *)
(* neither part of an MP3 frame nor of an ID3 tag; for a file of MP3       *)
(* frames and ID3 tags it ends normally, having yielded each frame with    *)
(* its complete data, in order, and no tag.                                *)
C18_LegacyStrictReader ==
    legacy.pc \in {"done", "error"} =>
        /\ (LegacyClasses \cap ForeignClasses # {}) =>
              (legacy.pc = "error" /\ legacy.err = "MP3Error")
        /\ (LegacyClasses \subseteq {"mpeg", "id3"}) =>
              /\ legacy.pc = "done"
              /\ Len(legacy.yielded) = Len(SelectSeq(legacy.items, IsFrameItem))
              /\ \A k \in 1..Len(legacy.yielded) :
                    legacy.yielded[k].data = ItemBytes(SelectSeq(legacy.items, IsFrameItem)[k])

(* the bytes of the source from the front of the buffer on *)
Rest == SubSeq(stream, consumed + 1, Len(stream))

(* the step accepted the candidate t: the bytes up to t.length + 12 were   *)
(* there, and a variant parses strictly at offset t.length                 *)
AcceptedConfirmed(t, next) ==
    /\ t.err = "ok"
    /\ Len(Rest) >= t.length + 12
    /\ next.err = "ok"
    /\ accepted'[Len(accepted')].kind = t.kind
    /\ accepted'[Len(accepted')].length = t.length
    /\ accepted'[Len(accepted')].pos = consumed
    /\ in_sync'

(* the step discarded the candidate: nothing accepted, no frame yielded,   *)
(* still out of sync, one byte skipped or the invalid-data path taken      *)
Discarded ==
    /\ accepted' = accepted
    /\ ~in_sync'
    /\ err' = err
    /\ IF ignore_invalid_data
       THEN yielded' = yielded /\ consumed' = consumed + 1
       ELSE pc' = "raising" /\ consumed' = consumed

(* one iteration out of sync with candidate t, next being the strict parse *)
(* at offset t.length of the bytes that follow                             *)
RecoveryStep(t, next) ==
    /\ Len(accepted') > Len(accepted) => AcceptedConfirmed(t, next)
    /\ accepted' = accepted =>
          /\ ~in_sync'
          /\ yielded' = yielded \/ yielded'[Len(yielded')].kind = "bytearray"
    /\ (t.err = "ok" /\ Len(Rest) >= t.length + 12 /\ next.err = "_InvalidFrame") => Discarded

RecoveryOf(t) == RecoveryStep(t, TryFrames(1, Rest, t.fo, t.length, TRUE))

(* C19: out of sync, a candidate is accepted, and the reader back in sync, *)
(* only if a variant parses with strict = true at offset candidate.length; *)
(* when none does the candidate is discarded, the reader stays out of sync *)
(* and yields no frame for the position.  Every step that yields a frame   *)
(* leaves the reader in sync.                                              *)
C19_RecoveryNeedsSecondFrame ==
    [][ /\ (pc = "loop" /\ ~in_sync) => RecoveryOf(TryFrames(1, buffer, fo, 0, TRUE))
        /\ (Len(yielded') > Len(yielded) /\ yielded'[Len(yielded')].kind # "bytearray")
              => in_sync'
      ]_vars

(* a header in garbage was discarded at offset 1 for want of a second      *)
(* frame 24 bytes later, and the frame at offset 10 was accepted out of    *)
(* sync with the frame after it as confirmation                            *)
C19_Witness ==
    /\ items = <<"G", "TRUNC", "F24", "F24">>
    /\ pc = "done"
    /\ \E k \in 1..Len(accepted) : accepted[k].pos = 10 /\ ~accepted[k].was_in_sync
    /\ \A k \in 1..Len(accepted) : accepted[k].pos >= 10
    /\ Len(yielded) = 2

(* C20: out of sync with a candidate, when the source ends before          *)
(* candidate.length + 12 bytes are buffered the candidate is discarded as  *)
(* garbage (one byte skipped, or the invalid-data path when invalid data   *)
(* is fatal) and the look-ahead raises no end-of-stream error.             *)
C20_ShortLookAheadIsDiscarded ==
    [][ (pc = "loop" /\ ~in_sync
           /\ TryFrames(1, buffer, fo, 0, TRUE).err = "ok"
           /\ Len(Rest) < TryFrames(1, buffer, fo, 0, TRUE).length + 12)
          => Discarded
      ]_vars

(***************************************************************************)
(* Properties of the resynchronisation of Reader.frames                    *)
(***************************************************************************)
(* the buffer holds the bytes of the source from the current position to   *)
(* the last byte read                                                      *)
BufferAtPosition(b, c, p) == b = SubSeq(stream, c + 1, p)

(* C21: with invalid data skipped, an iteration that accepts no candidate  *)
(* and raises nothing leaves the reader out of sync, removes exactly one   *)
(* byte from the front of the buffer and yields nothing; the next attempt  *)
(* starts at the very next byte of the stream, so every byte skipped was   *)
(* the front of the buffer in an attempt.  In sync, a position where no    *)
(* variant parses is such an iteration.                                    *)
C21_SkipsOneByte ==
    [][ /\ (pc = "loop" /\ ignore_invalid_data /\ Len(accepted') = Len(accepted)
              /\ pc' # "error") =>
              /\ ~in_sync'
              /\ consumed' = consumed + 1
              /\ yielded' = yielded
              /\ BufferAtPosition(buffer, consumed, srcpos)
              /\ BufferAtPosition(buffer', consumed + 1, srcpos')
        /\ (pc = "loop" /\ ignore_invalid_data /\ in_sync
              /\ TryFrames(1, buffer, fo, 0, FALSE).err = "_InvalidFrame") =>
              /\ accepted' = accepted
              /\ consumed' = consumed + 1
              /\ pc' # "error"
      ]_vars

(* two bytes of garbage were skipped one after the other, in sync for the  *)
(* first and out of sync for the second, and a frame header is now at the  *)
(* front of the buffer                                                     *)
C21_Witness ==
    /\ ignore_invalid_data
    /\ pc = "loop"
    /\ consumed = 2
    /\ ~in_sync
    /\ accepted = <<>>
    /\ yielded = <<>>
    /\ TryFrames(1, buffer, fo, 0, TRUE).err = "ok"

(***************************************************************************)
(* Properties of the session fields of the Reader                          *)
(***************************************************************************)
IsMpegRecord(f) == f.kind \in {"MPEGFrame", "XingFrame"}

(* C22: once an MPEG frame of version V and layer L was accepted, no MPEG  *)
(* frame of another version or layer is accepted later in the session, in  *)
(* sync or by the recovery.                                                *)
C22_VersionLayerKept ==
    \A i, j \in 1..Len(accepted) :
        (i < j /\ IsMpegRecord(accepted[i]) /\ IsMpegRecord(accepted[j])) =>
            /\ accepted[j].header.version = accepted[i].header.version
            /\ accepted[j].header.layer = accepted[i].header.layer

(* the RIFF/WAVE container header lies at offset o of the source *)
RiffHeaderAt(o) == startswith(stream, S_RIFF, o) /\ startswith(stream, S_WAVE, o + 8)

(* the bytes start with one of the chunk literals *)
IsChunk(b) ==
    startswith(b, S_fmt, 0) \/ startswith(b, S_fact, 0) \/ startswith(b, S_data, 0)

(* every 'fmt ', 'fact' or 'data' chunk accepted as a RIFF frame was        *)
(* accepted with has_riff_header set, and has_riff_header is set only when *)
(* RIFFFrame has matched the container header in the bytes read so far     *)
ChunksNeedContainer ==
    /\ \A i \in 1..Len(accepted) :
          (accepted[i].kind = "RIFFFrame" /\ IsChunk(accepted[i].bytes)) =>
              accepted[i].fo_before.has_riff_header
    /\ fo.has_riff_header => \E o \in 0..(srcpos - 12) : RiffHeaderAt(o)
    /\ pc = "start" => ~fo.has_riff_header

(* C23: a 'fmt ', 'fact' or 'data' chunk is a RIFF frame only if RIFFFrame *)
(* has recognised a RIFF/WAVE container header earlier in the session;     *)
(* without one a position that starts with such a literal is not accepted  *)
(* as a RIFF frame.  has_riff_header starts False and, once True, stays    *)
(* True.                                                                   *)
C23_ChunksNeedContainer ==
    /\ []ChunksNeedContainer
    /\ [][ /\ fo.has_riff_header => fo'.has_riff_header
           /\ (pc = "loop" /\ ~fo.has_riff_header /\ IsChunk(buffer)) =>
                 accepted' = accepted
         ]_vars

(* a container header, then a 'fmt ' and a 'data' chunk, all three         *)
(* accepted as RIFF frames                                                 *)
C23_Witness ==
    /\ pc = "done"
    /\ Len(accepted) >= 3
    /\ accepted[1].kind = "RIFFFrame" /\ ~accepted[1].fo_before.has_riff_header
    /\ accepted[2].kind = "RIFFFrame" /\ startswith(accepted[2].bytes, S_fmt, 0)
    /\ accepted[3].kind = "RIFFFrame" /\ startswith(accepted[3].bytes, S_data, 0)
    /\ fo.has_riff_header

(* the bytes are a RIFF/WAVE container header *)
IsContainerHeader(b) == startswith(b, S_RIFF, 0) /\ startswith(b, S_WAVE, 8)

(* C24: the RIFF/WAVE container header is recognised only as the very      *)
(* first bytes of the session: no RIFF frame accepted at a later position  *)
(* is a container header, and has_riff_header is set only by the pattern   *)
(* at offset 0 of the stream.                                              *)
C24_ContainerHeaderOnlyFirst ==
    /\ \A i \in 1..Len(accepted) :
          (accepted[i].kind = "RIFFFrame" /\ IsContainerHeader(accepted[i].bytes)) =>
              accepted[i].pos = 0
    /\ fo.has_riff_header => RiffHeaderAt(0)

(* the iteration has not accepted a XingFrame: the attempt to construct    *)
(* one at the front of the buffer has failed                               *)
XingRefused ==
    accepted' = accepted \/ accepted'[Len(accepted')].kind # "XingFrame"

(* once has_xing_header is False it stays False, and a XingFrame is        *)
(* accepted only by an iteration that began with it not False              *)
NegativeCacheKept ==
    /\ fo.has_xing_header = 0 => fo'.has_xing_header = 0
    /\ (Len(accepted') > Len(accepted) /\ accepted'[Len(accepted')].kind = "XingFrame") =>
          fo.has_xing_header # 0

(* C25, as stated: every iteration in which the Xing variant is refused,   *)
(* the one refused for an invalid MPEG header included, leaves             *)
(* has_xing_header False; once False it stays False and no XingFrame is    *)
(* accepted afterwards.                                                    *)
C25_EveryXingFailureCached ==
    [][ /\ (pc = "loop" /\ pc' # "error" /\ XingRefused) => fo'.has_xing_header = 0
        /\ NegativeCacheKept
      ]_vars

(* C25, amended: an iteration in which the Xing variant is refused at a    *)
(* position that holds a valid MPEG header leaves has_xing_header False;   *)
(* in sync, one refused at a position that holds no valid MPEG header      *)
(* leaves has_xing_header as it was (None before the first valid header);  *)
(* once False it stays False and no XingFrame is accepted afterwards.      *)
C25_XingFailureCachedOnValidHeader ==
    [][ /\ (pc = "loop" /\ pc' # "error" /\ XingRefused
              /\ Header2_init(buffer, 0).err = "ok") => fo'.has_xing_header = 0
        /\ (pc = "loop" /\ pc' # "error" /\ in_sync
              /\ Header2_init(buffer, 0).err # "ok") =>
              fo'.has_xing_header = fo.has_xing_header
        /\ NegativeCacheKept
      ]_vars

(* an ID3 tag was accepted and garbage skipped with has_xing_header still  *)
(* None, then the frame that carries the Xing tag was accepted as a plain  *)
(* MPEGFrame and has_xing_header is False                                  *)
C25_Witness ==
    /\ items = <<"ID3", "XING", "F24">>
    /\ pc = "done"
    /\ Len(accepted) = 3
    /\ accepted[1].fo_after.has_xing_header = None
    /\ accepted[2].fo_before.has_xing_header = None
    /\ accepted[2].fo_after.has_xing_header = 0
    /\ accepted[3].fo_after.has_xing_header = 0

(***************************************************************************)
(* Properties of the errors a frame constructor may raise                  *)
(***************************************************************************)
(* the exceptions of Reader.frames that do not come from a constructor:    *)
(* line 356 and line 369                                                   *)
ReaderErrors == {"MP3Error: encountered invalid data", "Exception"}

(* C26: over a buffer of more than 4 bytes a constructor returns a frame   *)
(* or signals _InvalidFrame, and the only other exception it may raise is  *)
(* the unsupported RIFF format: the generator never ends with another      *)
(* exception of a constructor, not over 'ID3' with fewer than 10 bytes,    *)
(* nor over 'APETAGEX' or 'fmt ' with too few bytes for the size fields.   *)
C26_ConstructorsNeverFail ==
    pc = "error" =>
        err \in ReaderErrors \cup {"MP3Error: non MPEG 1 Layer III data"}

(***************************************************************************)
(* Properties of the end-of-stream error                                   *)
(***************************************************************************)
(* C27: fill(at_least = n), for n within the capacity, reports the end of  *)
(* the stream only when the source is exhausted: it does not raise         *)
(* EOFError while the window and the bytes the source has still to give    *)
(* hold n bytes between them, however short the reads.                     *)
C27_EndOfStreamOnlyWhenExhausted ==
    (FilledAtLeast(zret) /\ zret.args.at_least <= z.size
       /\ zlen(z) + (MaxSource - zsrc) >= zret.args.at_least) =>
        zret.err # "EOFError"

(***************************************************************************)
(* Termination of Reader.frames                                            *)
(***************************************************************************)
Stopped == pc \in {"done", "error"}

(* the number of bytes not yet deleted from the front of the buffer is a   *)
(* natural number, every accepted frame has at least one byte, the         *)
(* generator that has stopped takes no step, and it ends normally only     *)
(* with too few bytes for a header and no error                            *)
BoundedWork ==
    /\ consumed \in 0..Len(stream)
    /\ srcpos \in consumed..Len(stream)
    /\ \A i \in 1..Len(accepted) : accepted[i].length >= 1
    /\ Stopped => ~ENABLED Next
    /\ pc = "done" => (Len(buffer) <= 4 /\ err = "none")

(* C28: over a finite source pulling from Reader.frames stops.  Every      *)
(* iteration of the loop deletes at least one byte from the buffer or      *)
(* leaves the loop with an exception, the bytes left to delete are bounded *)
(* by the length of the source, and with invalid data skipped an iteration *)
(* at a position where no variant parses raises nothing: the sequence ends *)
(* without error once no more than 4 bytes remain.                         *)
C28_FramesTerminates ==
    /\ []BoundedWork
    /\ [][ /\ pc = "start" => pc' \in {"loop", "done"}
           /\ pc = "loop" =>
                 \/ consumed' > consumed /\ pc' \in {"loop", "done"}
                 \/ consumed' = consumed /\ pc' \in {"error", "raising"}
           /\ pc = "raising" => pc' = "error"
           /\ (pc = "loop" /\ ignore_invalid_data
                 /\ TryFrames(1, buffer, fo, 0, ~in_sync).err = "_InvalidFrame") =>
                 /\ err' = "none"
                 /\ pc' = (IF Len(buffer') <= 4 THEN "done" ELSE "loop")
         ]_vars

(* a frame was accepted, then the six bytes of a residue that no variant   *)
(* parses were skipped one by one and the sequence ended with four bytes   *)
(* left and no error                                                       *)
C28_Witness ==
    /\ ignore_invalid_data
    /\ pc = "done"
    /\ err = "none"
    /\ Len(accepted) = 1
    /\ consumed = accepted[1].length + 6
    /\ Len(buffer) = 4
    /\ srcpos = Len(stream)
    /\ ~in_sync

(***************************************************************************)
(* Byte accounting of Reader.frames                                        *)
(***************************************************************************)
RECURSIVE SumOfLengths(_, _)
SumOfLengths(fs, i) == IF i > Len(fs) THEN 0 ELSE fs[i].length + SumOfLengths(fs, i + 1)

(* the accepted frames are stretches of the source, each the length bytes  *)
(* from the position of its header, one after the other without overlap    *)
(* and all before the current position; the buffer holds the bytes from    *)
(* the current position to the last byte read, each once                   *)
BytesAccounted ==
    /\ \A i \in 1..Len(accepted) :
          /\ accepted[i].length >= 1
          /\ Len(accepted[i].bytes) = accepted[i].length
          /\ accepted[i].bytes =
                SubSeq(stream, accepted[i].pos + 1, accepted[i].pos + accepted[i].length)
          /\ accepted[i].pos + accepted[i].length <= consumed
    /\ \A i, j \in 1..Len(accepted) :
          i < j => accepted[i].pos + accepted[i].length <= accepted[j].pos
    /\ SumOfLengths(accepted, 1) <= consumed
    /\ consumed <= srcpos
    /\ BufferAtPosition(buffer, consumed, srcpos)

(* C29: every byte taken from the source leaves the buffer at most once,   *)
(* as a byte of exactly one accepted frame, yielded or not, or as one      *)
(* discarded byte; the accepted frames are disjoint and in stream order,   *)
(* and the bytes of each are the length bytes of the source from the       *)
(* position at which its header was recognised.                            *)
C29_ByteAccounting ==
    /\ []BytesAccounted
    /\ [][ IF Len(accepted') > Len(accepted)
           THEN /\ accepted'[Len(accepted')].pos = consumed
                /\ consumed' = consumed + accepted'[Len(accepted')].length
                /\ SubSeq(accepted', 1, Len(accepted)) = accepted
           ELSE /\ accepted' = accepted
                /\ consumed' \in {consumed, consumed + 1}
         ]_vars

(* two bytes were discarded, then three frames accepted back to back, the  *)
(* whole source being consumed                                             *)
C29_Witness ==
    /\ pc = "done"
    /\ Len(accepted) = 3
    /\ accepted[1].pos = 2
    /\ accepted[2].pos = 2 + accepted[1].length
    /\ accepted[3].pos = accepted[2].pos + accepted[2].length
    /\ consumed = Len(stream)
    /\ consumed = SumOfLengths(accepted, 1) + 2

(***************************************************************************)
(* Frame condition of an attempt that accepts nothing                      *)
(***************************************************************************)
(* C30: a candidate that is discarded, no exception being raised, leaves   *)
(* the session fields                                                      *)
(* (has_riff_header, has_xing_header, the MPEG version and layer) as they  *)
(* were before the attempt, and when a candidate is accepted out of sync   *)
(* the frame constructed at offset candidate.length as a probe leaves no   *)
(* trace: the fields are as the construction of the candidate left them.   *)
C30_RefusedCandidateLeavesSession ==
    [][ /\ (pc = "loop" /\ accepted' = accepted /\ pc' # "error") => fo' = fo
        /\ (pc = "loop" /\ ~in_sync /\ Len(accepted') > Len(accepted)) =>
              fo' = TryFrames(1, buffer, fo, 0, TRUE).fo
      ]_vars

(***************************************************************************)
(* Properties of the window of a ZeroCopyBuffer                            *)
(***************************************************************************)
(* what the call that led to the next state did to the window: fill        *)
(* appended the bytes the source gave, extend appended the first bytes of  *)
(* its argument, as many as it returned, delete removed a prefix; the      *)
(* bytes that stay keep their order                                        *)
WindowStep ==
    /\ zret'.op = "fill" =>
          Window(z') = Window(z) \o SourceBytes(zsrc, zsrc' - zsrc)
    /\ zret'.op = "extend" =>
          /\ zret'.val \in 0..Len(zret'.args.bytes)
          /\ Window(z') = Window(z) \o SubSeq(zret'.args.bytes, 1, zret'.val)
    /\ zret'.op = "delete" =>
          Window(z') = SubSeq(Window(z), Min(zret'.args.length, zlen(z)) + 1, zlen(z))

(* C31: after any sequence of fill, extend and delete calls the window is, *)
(* in order, the bytes accepted from the source and from extend with the   *)
(* deleted prefix removed: no call loses, duplicates or reorders a byte of *)
(* the window, and new bytes come directly after the old ones.             *)
C31_WindowIsAcceptedBytes == [][WindowStep]_vars

====
